---- MODULE Spec2Model ----
(***************************************************************************)
(* RestHelper (Manila/Pike/v3/helper.py): the REST session layer of the    *)
(* Huawei OceanStor V3 share driver.  One client object (self.url,         *)
(* self.session) is shared by the threads of the driver; login(), logout() *)
(* and call() are modelled exchange by exchange: every do_call is a step   *)
(* that sends the request (reading self.url and the session headers) and a *)
(* step that receives whatever the network and the array answer.           *)
(***************************************************************************)
EXTENDS Integers, Sequences, FiniteSets, TLC

\* ---------------------------------------------------------------- bounds
NumThreads == 2
NumUrls == 3
NumDevices == 2
NumTokens == 2

\* the counts an array reports stay below MaxWindows windows of items
MaxWindows == 3
\* the filesystems a QoS policy lists when one more is added to it
MaxFsList == 2
\* the QoS policies the array lists
MaxPolicies == 2

Threads == 1..NumThreads
\* the positions of url_list = RestURL.split(";")
UrlList == 1..NumUrls
\* the device ids and tokens the array can hand out; 0 stands for None
DeviceIds == 1..NumDevices
Tokens == 1..NumTokens

\* ------------------------------------------------------------- constants
\* constants.ERROR_CONNECT_TO_SERVER and constants.ERROR_UNAUTHORIZED_TO_SERVER
\* (manila.share.drivers.huawei.constants, imported at helper.py:28)
ERROR_CONNECT_TO_SERVER == -403
ERROR_UNAUTHORIZED_TO_SERVER == -401
\* constants.PWD_EXPIRED_OR_INITIAL, the account states that force a
\* password change
PWD_EXPIRED_OR_INITIAL == {"PWD_EXPIRED", "PWD_INITIAL"}
AccountStates == {"NORMAL", "PWD_EXPIRED"}

\* ------------------------------------------------------------- envelopes
\* The JSON body {"error": {"code": c}, "data": {...}}.  hasData is
\* '"data" in result'; deviceid 0 is a null deviceid.
Envelope(c, hd, d, k, a) ==
    [code |-> c, hasData |-> hd, deviceid |-> d, iBaseToken |-> k,
     accountstate |-> a]

NoEnvelope == Envelope(0, FALSE, 0, 0, "NORMAL")

ErrorEnvelope(c) == Envelope(c, FALSE, 0, 0, "NORMAL")

\* An array error code that is neither 0 nor one of the two session
\* sentinels (the value itself is of no consequence to the session layer).
SomeArrayError == 1077949061

\* The codes the resource operations single out (constants.py); every
\* other non-zero code is an error to them.
ERROR_USER_OR_GROUP_NOT_EXIST == 1077939723
MSG_SNAPSHOT_NOT_FOUND == 1073754118
ERROR_REPLICATION_PAIR_NOT_EXIST == 1077937923
ERROR_HYPERMETRO_NOT_EXIST == 1077674242
ERROR_LOGICAL_PORT_EXIST == 1073813505

\* the codes an envelope handed to a resource operation can carry
\* constants.OPTS_QOS_VALUE (two of its keys), constants.STATUS_QOS_ACTIVE,
\* constants.MAX_FS_NUM_IN_QOS and constants.QOS_NAME_PREFIX
OPTS_QOS_VALUE == {"MAXIOPS", "LATENCY"}
STATUS_QOS_ACTIVE == "2"
MAX_FS_NUM_IN_QOS == 64
QOS_NAME_PREFIX == <<"O", "p", "e", "n", "S", "t", "a", "c", "k", "_">>

ArrayCodes ==
    { 0, ERROR_USER_OR_GROUP_NOT_EXIST, MSG_SNAPSHOT_NOT_FOUND,
      ERROR_REPLICATION_PAIR_NOT_EXIST, ERROR_HYPERMETRO_NOT_EXIST,
      ERROR_LOGICAL_PORT_EXIST, SomeArrayError }

\* What one HTTP exchange can come back with: the transport raising
\* (kind "exc"), or a response with a status and a body that is JSON or not.
Response(k, s, j, e) == [kind |-> k, status |-> s, json |-> j, env |-> e]

ExcResponse == Response("exc", 0, FALSE, NoEnvelope)

HttpErrorResponse(s) == Response("http", s, FALSE, NoEnvelope)

NotJsonResponse == Response("http", 200, FALSE, NoEnvelope)

JsonResponse(e) == Response("http", 200, TRUE, e)

\* The answers to POST <item_url>xx/sessions.
LoginAccepts ==
    { JsonResponse(Envelope(0, TRUE, d, k, a)) :
        d \in DeviceIds, k \in Tokens, a \in AccountStates }

LoginResponses ==
    { ExcResponse, NotJsonResponse,
      JsonResponse(Envelope(SomeArrayError, TRUE, 1, 1, "NORMAL")),
      JsonResponse(Envelope(0, FALSE, 0, 0, "NORMAL")),
      JsonResponse(Envelope(0, TRUE, 0, 1, "NORMAL")) }
    \cup LoginAccepts

\* The answers to any other request.
CallResponses ==
    { ExcResponse, HttpErrorResponse(401), HttpErrorResponse(503),
      NotJsonResponse }
    \cup { JsonResponse(Envelope(0, hd, 0, 0, "NORMAL")) : hd \in BOOLEAN }
    \cup { JsonResponse(ErrorEnvelope(c)) :
            c \in {ERROR_UNAUTHORIZED_TO_SERVER, SomeArrayError} }

\* ------------------------------------------------------------ do_call
\* call()'s method argument; "None" is the default, "PATCH" stands for
\* every name outside ('POST', 'PUT', 'GET', 'DELETE').
Methods == {"None", "GET", "PATCH"}

\* method = method or 'POST'
EffectiveMethod(m) == IF m = "None" THEN "POST" ELSE m

MethodValid(m) == EffectiveMethod(m) \in {"POST", "PUT", "GET", "DELETE"}

\* res.raise_for_status() raises HTTPError for the 4xx and 5xx statuses
RaisesForStatus(status) == status >= 400 /\ status < 600

\* do_call letting the transport's exception through
DoCallResultRaising(resp) ==
    IF resp.kind = "exc"
    THEN [raised |-> "ConnectionError", env |-> NoEnvelope]
    ELSE IF resp.status >= 400 /\ resp.status < 600
    THEN [raised |-> "", env |-> ErrorEnvelope(resp.status)]
    ELSE IF ~resp.json
    THEN [raised |-> "ValueError", env |-> NoEnvelope]
    ELSE [raised |-> "", env |-> resp.env]

\* What do_call does with what came back: [raised, env].  raised is "" when
\* do_call returns env, and the exception's name when it propagates one.
DoCallResult(resp) ==
    IF resp.kind = "exc"
    THEN [raised |-> "", env |-> ErrorEnvelope(ERROR_CONNECT_TO_SERVER)]
    ELSE IF RaisesForStatus(resp.status)
    THEN [raised |-> "", env |-> ErrorEnvelope(resp.status)]
    ELSE IF ~resp.json
    THEN [raised |-> "ValueError", env |-> NoEnvelope]
    ELSE [raised |-> "", env |-> resp.env]

\* ------------------------------------------------------------- state
VARIABLES
    url,        \* self.url: unset (no attribute yet), None, or item_url + deviceid
    session,    \* self.session: None, or a requests.Session and its iBaseToken
    lock,       \* the owner of the 'huawei_manila' lock; 0 when free
    pc,         \* where each thread is
    op,         \* the method each thread was asked to run: call, login, logout
    method,     \* call()'s method argument
    idx,        \* login()'s position in url_list
    deviceid,   \* login()'s deviceid, and call()'s once login() returned
    result,     \* the envelope the last do_call of the thread returned
    req,        \* the request the thread sent last
    log,        \* the exchanges of the thread's operation, in order
    nlogin,     \* how many times the thread's operation entered login()
    outcome,    \* how the thread's operation ended
    rop,        \* the resource operation that is running; "none" when idle
    rpc,        \* where the resource operation is
    rarg,       \* its arguments
    rloc,       \* its local variables
    rlog,       \* the requests it handed to call(), with what call() did
    rout        \* how it ended

\* the session layer's variables and the resource operations'
sessvars == <<url, session, lock, pc, op, method, idx, deviceid, result, req,
              log, nlogin, outcome>>

opvars == <<rop, rpc, rarg, rloc, rlog, rout>>

vars == <<url, session, lock, pc, op, method, idx, deviceid, result, req,
          log, nlogin, outcome, rop, rpc, rarg, rloc, rlog, rout>>

UrlUnset == [st |-> "unset", item |-> 0, dev |-> 0]
UrlNone == [st |-> "none", item |-> 0, dev |-> 0]
\* item_url + deviceid
UrlOf(i, d) == [st |-> "url", item |-> i, dev |-> d]

\* 'if self.url:'
UrlTruthy(u) == u.st = "url"

SessionNone == [live |-> FALSE, iBaseToken |-> 0]
\* requests.Session() with the two fixed headers and no iBaseToken
SessionFresh == [live |-> TRUE, iBaseToken |-> 0]

NoOutcome == [kind |-> "none", exc |-> "", env |-> NoEnvelope, dev |-> 0]
Returned(e, d) == [kind |-> "return", exc |-> "", env |-> e, dev |-> d]
Raised(x) == [kind |-> "raise", exc |-> x, env |-> NoEnvelope, dev |-> 0]

\* a do_call that sends the path as it was given
NeverPrefixed(u) == UrlNone

\* do_call: 'if self.url: url = self.url + url'
Prefixed(u) == IF UrlTruthy(u) THEN u ELSE UrlNone

\* A request as func(url, **kwargs) sends it: its kind (call, login,
\* logout), the url_list position of a login request, the base URL prefixed
\* to the path, the iBaseToken header of the session and the HTTP method.
Request(k, i, u, s, m) ==
    [kind |-> k, item |-> i, prefix |-> Prefixed(u), token |-> s.iBaseToken,
     method |-> m]

NoRequest == Request("none", 0, UrlNone, SessionNone, "None")

\* a transport that answers whatever the URL is
AnswersWhateverUrl(r) == CallResponses

\* What can come back to the request r: a path that went out with no base
\* URL in front is no URL the transport can open, so func() raises and
\* do_call's 'except Exception' is all that can happen.
Answers(r) == IF UrlTruthy(r.prefix) THEN CallResponses ELSE {ExcResponse}

\* One exchange as the log keeps it: the request's kind and url_list
\* position, whether self.url was put in front of its path, and what came
\* back.
NoResponse == Response("pending", 0, FALSE, NoEnvelope)

Exchange(k, i, u) ==
    [kind |-> k, item |-> i, based |-> UrlTruthy(u), resp |-> NoResponse]

Answered(l, resp) == [l EXCEPT ![Len(l)].resp = resp]

\* ------------------------------------------ resource operations: state
\* What call() did with a request of a resource operation: it raised
\* (kind "raise"), or it returned an envelope (kind "return") with a code
\* and, when hasData, a "data" member.  Of the data the operations read:
\* count is data.COUNT; n is the number of items of a list, match says that
\* one of them is the item looked for, and up that this item's
\* OPERATIONALSTATUS is 'true'; items is the list of QoS policies.
Ans(k, c, hd, cnt, nn, m, u) ==
    [kind |-> k, code |-> c, hasData |-> hd, count |-> cnt, n |-> nn,
     match |-> m, up |-> u, items |-> <<>>]

Pending == Ans("pending", 0, FALSE, 0, 0, FALSE, FALSE)

CallRaises == Ans("raise", 0, FALSE, 0, 0, FALSE, FALSE)

\* an envelope with a code and no "data"
Bare(c) == Ans("return", c, FALSE, 0, 0, FALSE, FALSE)

\* an envelope with code 0 and a "data" object
WithData == Ans("return", 0, TRUE, 0, 0, FALSE, FALSE)

\* One request as rlog keeps it: the method and path, the NAME and
\* DOMAINTYPE of a grant, the start of a range, the FSLIST of a QoS
\* association, and what call() did.
Sent(w, nm, dt, b) ==
    [what |-> w, name |-> nm, domain |-> dt, begin |-> b, fslist |-> <<>>,
     ans |-> Pending]

\* How a resource operation ended.  code is the envelope code the raised
\* message embeds (0: none), or the code of a returned envelope; val is the
\* returned value, id the position of a returned policy.
NoROutcome ==
    [kind |-> "none", exc |-> "", code |-> 0, val |-> "", id |-> 0]
RReturn(v) ==
    [kind |-> "return", exc |-> "", code |-> 0, val |-> v, id |-> 0]
RReturnEnvelope(c) ==
    [kind |-> "return", exc |-> "", code |-> c, val |-> "envelope", id |-> 0]
RRaise(x, c) ==
    [kind |-> "raise", exc |-> x, code |-> c, val |-> "", id |-> 0]
\* find_available_qos returning the policy at position i of the listing
\* and its FSLIST
RReturnQos(i) ==
    [kind |-> "return", exc |-> "", code |-> 0, val |-> "qos_id, fs_list",
     id |-> i]

\* the arguments and locals of an operation that has none of interest
\* (fs_list is a string, policy_fs the ids the array encoded in it)
NoArgs ==
    [qualified |-> FALSE, snap_info |-> Pending, fs_list |-> <<>>,
     policy_fs |-> <<>>, fs_id |-> <<>>,
     qos |-> [key \in OPTS_QOS_VALUE |-> "None"], share_proto |-> ""]
NoLocals == [count |-> 0, range_begin |-> 0, found |-> FALSE]

OpsInit ==
    /\ rop = "none"
    /\ rpc = "idle"
    /\ rarg = NoArgs
    /\ rloc = NoLocals
    /\ rlog = <<>>
    /\ rout = NoROutcome

Init ==
    /\ url = UrlUnset
    /\ session = SessionNone
    /\ lock = 0
    /\ pc = [t \in Threads |-> "idle"]
    /\ op = [t \in Threads |-> "none"]
    /\ method = [t \in Threads |-> "None"]
    /\ idx = [t \in Threads |-> 0]
    /\ deviceid = [t \in Threads |-> 0]
    /\ result = [t \in Threads |-> NoEnvelope]
    /\ req = [t \in Threads |-> NoRequest]
    /\ log = [t \in Threads |-> <<>>]
    /\ nlogin = [t \in Threads |-> 0]
    /\ outcome = [t \in Threads |-> NoOutcome]
    /\ OpsInit

\* ------------------------------------------------------ the result contract
\* a call() that re-logs in on every failed envelope
NeedsReloginOnAnyError(code) == code # 0

\* call(): 'error_code == ERROR_CONNECT_TO_SERVER or
\*          error_code == ERROR_UNAUTHORIZED_TO_SERVER'
NeedsRelogin(code) ==
    code = ERROR_CONNECT_TO_SERVER \/ code = ERROR_UNAUTHORIZED_TO_SERVER

\* the candidate's error code left unchecked
LoginRejectedCodeBlind(env) ==
    ~env.hasData \/ env.deviceid = 0

\* login(): the condition under which a candidate is given up
LoginRejected(env) ==
    env.code # 0 \/ ~env.hasData \/ env.deviceid = 0

\* the account state never looked at
PasswordNeverChecked(env) == FALSE

\* login(): 'result['data']['accountstate'] in PWD_EXPIRED_OR_INITIAL'
PasswordMustChange(env) == env.accountstate \in PWD_EXPIRED_OR_INITIAL

\* the loop stepping over a candidate
SkipCandidate(i) == i + 2

\* login(): 'continue' takes the loop to the next item of url_list
NextCandidate(i) == i + 1

\* an assertion that lets every code pass
AssertRestResultLenient(env) == FALSE

\* _assert_rest_result raises InvalidShare when the code is not 0
AssertRestResultRaises(env) == env.code # 0

\* ------------------------------------------------------------- steps
\* The operation of thread t ends with outcome o.  The thread stays at
\* "done" (still inside the function, the lock still held) until Return.
Finish(t, o) ==
    /\ pc' = [pc EXCEPT ![t] = "done"]
    /\ outcome' = [outcome EXCEPT ![t] = o]

\* login() and logout() carry no lock.  The driver runs them from its own
\* setup and teardown, so they start only while no other operation runs;
\* concurrent callers all come through call().
StartLogin(t) ==
    /\ pc[t] = "idle"
    /\ \A u \in Threads : pc[u] = "idle"
    /\ pc' = [pc EXCEPT ![t] = "login_iter"]
    /\ op' = [op EXCEPT ![t] = "login"]
    /\ idx' = [idx EXCEPT ![t] = 1]
    /\ deviceid' = [deviceid EXCEPT ![t] = 0]
    /\ nlogin' = [nlogin EXCEPT ![t] = 1]
    /\ UNCHANGED <<url, session, lock, method, result, req, log, outcome>>
    /\ UNCHANGED opvars

StartLogout(t) ==
    /\ pc[t] = "idle"
    /\ \A u \in Threads : pc[u] = "idle"
    /\ pc' = [pc EXCEPT ![t] = "logout"]
    /\ op' = [op EXCEPT ![t] = "logout"]
    /\ UNCHANGED <<url, session, lock, method, idx, deviceid, result, req,
                   log, nlogin, outcome>>
    /\ UNCHANGED opvars

\* A caller arrives at call() and waits for the 'huawei_manila' lock.
StartCall(t) ==
    /\ pc[t] = "idle"
    /\ \A u \in Threads : op[u] \notin {"login", "logout"}
    /\ pc' = [pc EXCEPT ![t] = "call_lock"]
    /\ op' = [op EXCEPT ![t] = "call"]
    /\ UNCHANGED <<url, session, lock, method, idx, deviceid, result, req,
                   log, nlogin, outcome>>
    /\ UNCHANGED opvars

\* call() entered without waiting for the lock to be free
CallAcquireUnlocked(t) ==
    /\ pc[t] = "call_lock"
    /\ lock' = t
    /\ \E m \in Methods : method' = [method EXCEPT ![t] = m]
    /\ deviceid' = [deviceid EXCEPT ![t] = 0]
    /\ IF url = UrlUnset
       THEN /\ pc' = [pc EXCEPT ![t] = "done"]
            /\ outcome' = [outcome EXCEPT ![t] = Raised("AttributeError")]
       ELSE /\ pc' = [pc EXCEPT ![t] = "call_first"]
            /\ UNCHANGED outcome
    /\ UNCHANGED <<url, session, op, idx, result, req, log, nlogin>>
    /\ UNCHANGED opvars

\* @utils.synchronized('huawei_manila'), then 'deviceid = None' and
\* 'old_url = self.url', which raises AttributeError while no
\* init_http_head() has set the attribute.
CallAcquire(t) ==
    /\ pc[t] = "call_lock"
    /\ lock = 0
    /\ lock' = t
    /\ \E m \in Methods : method' = [method EXCEPT ![t] = m]
    /\ deviceid' = [deviceid EXCEPT ![t] = 0]
    /\ IF url = UrlUnset
       THEN Finish(t, Raised("AttributeError"))
       ELSE /\ pc' = [pc EXCEPT ![t] = "call_first"]
            /\ UNCHANGED outcome
    /\ UNCHANGED <<url, session, op, idx, result, req, log, nlogin>>
    /\ UNCHANGED opvars

\* do_call up to 'res = func(url, **kwargs)': the path is prefixed with
\* self.url, the session method is looked up, the request leaves.
DoCallSend(t, kind, waitpc) ==
    IF ~session.live
    THEN /\ Finish(t, Raised("AttributeError"))
         /\ UNCHANGED <<req, log>>
    ELSE IF ~MethodValid(method[t])
    THEN /\ Finish(t, Raised("ShareBackendException:InvalidMethod"))
         /\ UNCHANGED <<req, log>>
    ELSE /\ req' = [req EXCEPT ![t] =
                Request(kind, 0, url, session, EffectiveMethod(method[t]))]
         /\ log' = [log EXCEPT ![t] = Append(@, Exchange(kind, 0, url))]
         /\ pc' = [pc EXCEPT ![t] = waitpc]
         /\ UNCHANGED outcome

\* 'result = self.do_call(url, data, method)', the first exchange
CallFirstSend(t) ==
    /\ pc[t] = "call_first"
    /\ DoCallSend(t, "call", "call_first_wait")
    /\ UNCHANGED <<url, session, lock, op, method, idx, deviceid, result,
                   nlogin>>
    /\ UNCHANGED opvars

\* The first exchange comes back: the envelope is returned, or login() is
\* entered on one of the two sentinel codes.
CallFirstRecv(t) ==
    /\ pc[t] = "call_first_wait"
    /\ \E resp \in Answers(req[t]) :
         LET r == DoCallResult(resp) IN
         /\ log' = [log EXCEPT ![t] = Answered(@, resp)]
         /\ IF r.raised # ""
            THEN /\ Finish(t, Raised(r.raised))
                 /\ UNCHANGED <<result, idx, nlogin>>
            ELSE /\ result' = [result EXCEPT ![t] = r.env]
                 /\ IF NeedsRelogin(r.env.code)
                    THEN /\ pc' = [pc EXCEPT ![t] = "login_iter"]
                         /\ idx' = [idx EXCEPT ![t] = 1]
                         /\ nlogin' = [nlogin EXCEPT ![t] = @ + 1]
                         /\ UNCHANGED outcome
                    ELSE /\ Finish(t, Returned(r.env, 0))
                         /\ UNCHANGED <<idx, nlogin>>
    /\ UNCHANGED <<url, session, lock, op, method, deviceid, req>>
    /\ UNCHANGED opvars

\* a turn of the loop that leaves init_http_head() out
LoginSendKeepsSession(t) ==
    /\ pc[t] = "login_iter"
    /\ idx[t] <= NumUrls
    /\ req' = [req EXCEPT ![t] =
            Request("login", idx[t], url, session, "POST")]
    /\ log' = [log EXCEPT ![t] = Append(@, Exchange("login", idx[t], url))]
    /\ pc' = [pc EXCEPT ![t] = "login_wait"]
    /\ UNCHANGED <<url, session, lock, op, method, idx, deviceid, result,
                   nlogin, outcome>>
    /\ UNCHANGED opvars

\* login(), one turn of 'for item_url in url_list': init_http_head() drops
\* the base URL and the old session, then the credentials go to
\* <item_url>xx/sessions.
LoginSend(t) ==
    /\ pc[t] = "login_iter"
    /\ idx[t] <= NumUrls
    /\ url' = UrlNone
    /\ session' = SessionFresh
    /\ req' = [req EXCEPT ![t] =
            Request("login", idx[t], url', session', "POST")]
    /\ log' = [log EXCEPT ![t] = Append(@, Exchange("login", idx[t], url'))]
    /\ pc' = [pc EXCEPT ![t] = "login_wait"]
    /\ UNCHANGED <<lock, op, method, idx, deviceid, result, nlogin, outcome>>
    /\ UNCHANGED opvars

\* a login() that leaves the token of the answer out
WithoutToken(s, env) == s

\* login(): 'self.session.headers['iBaseToken'] = result['data']['iBaseToken']'
WithToken(s, env) == [s EXCEPT !.iBaseToken = env.iBaseToken]

\* login() returns deviceid: to call(), which goes on to the retry, or to
\* the driver.
LoginReturns(t, d) ==
    IF op[t] = "call"
    THEN /\ pc' = [pc EXCEPT ![t] = "call_retry"]
         /\ UNCHANGED outcome
    ELSE Finish(t, Returned(NoEnvelope, d))

\* The answer of a candidate: 'continue' when it is rejected; otherwise the
\* base URL and the token are stored, and a password-expired account is
\* logged out.
LoginRecv(t) ==
    /\ pc[t] = "login_wait"
    /\ \E resp \in LoginResponses :
         LET r == DoCallResult(resp) IN
         /\ log' = [log EXCEPT ![t] = Answered(@, resp)]
         /\ IF r.raised # ""
            THEN /\ Finish(t, Raised(r.raised))
                 /\ UNCHANGED <<url, session, idx, deviceid, result>>
            ELSE /\ result' = [result EXCEPT ![t] = r.env]
                 /\ IF LoginRejected(r.env)
                    THEN /\ idx' = [idx EXCEPT ![t] = NextCandidate(@)]
                         /\ pc' = [pc EXCEPT ![t] = "login_iter"]
                         /\ UNCHANGED <<url, session, deviceid, outcome>>
                    ELSE /\ deviceid' = [deviceid EXCEPT ![t] = r.env.deviceid]
                         /\ url' = UrlOf(idx[t], r.env.deviceid)
                         /\ session' = WithToken(session, r.env)
                         /\ UNCHANGED idx
                         /\ IF PasswordMustChange(r.env)
                            THEN /\ pc' = [pc EXCEPT ![t] = "logout"]
                                 /\ UNCHANGED outcome
                            ELSE LoginReturns(t, r.env.deviceid)
    /\ UNCHANGED <<lock, op, method, req, nlogin>>
    /\ UNCHANGED opvars

\* login() returning None when every candidate failed, so that call()
\* hands the first envelope back
LoginExhaustedSwallowed(t) ==
    /\ pc[t] = "login_iter"
    /\ idx[t] > NumUrls
    /\ IF op[t] = "call"
       THEN Finish(t, Returned(result[t], 0))
       ELSE Finish(t, Raised("InvalidShare:AllUrlLoginFail"))
    /\ UNCHANGED <<url, session, lock, op, method, idx, deviceid, result,
                   req, log, nlogin>>
    /\ UNCHANGED opvars

\* The loop ran out of candidates with deviceid still None.
LoginExhausted(t) ==
    /\ pc[t] = "login_iter"
    /\ idx[t] > NumUrls
    /\ Finish(t, Raised("InvalidShare:AllUrlLoginFail"))
    /\ UNCHANGED <<url, session, lock, op, method, idx, deviceid, result,
                   req, log, nlogin>>
    /\ UNCHANGED opvars

\* logout() returns: to the driver, or to login(), which then raises the
\* password error.
LogoutReturns(t) ==
    IF op[t] = "logout"
    THEN Finish(t, Returned(NoEnvelope, 0))
    ELSE Finish(t, Raised("ShareBackendException:PasswordExpired"))

\* logout(): 'if self.url:' and the DELETE of /sessions
LogoutSend(t) ==
    /\ pc[t] = "logout"
    /\ IF url = UrlUnset
       THEN /\ Finish(t, Raised("AttributeError"))
            /\ UNCHANGED <<req, log>>
       ELSE IF ~UrlTruthy(url)
       THEN /\ LogoutReturns(t)
            /\ UNCHANGED <<req, log>>
       ELSE /\ req' = [req EXCEPT ![t] =
                   Request("logout", 0, url, session, "DELETE")]
            /\ log' = [log EXCEPT ![t] = Append(@, Exchange("logout", 0, url))]
            /\ pc' = [pc EXCEPT ![t] = "logout_wait"]
            /\ UNCHANGED outcome
    /\ UNCHANGED <<url, session, lock, op, method, idx, deviceid, result,
                   nlogin>>
    /\ UNCHANGED opvars

\* The DELETE comes back and _assert_rest_result judges it.
LogoutRecv(t) ==
    /\ pc[t] = "logout_wait"
    /\ \E resp \in Answers(req[t]) :
         LET r == DoCallResult(resp) IN
         /\ log' = [log EXCEPT ![t] = Answered(@, resp)]
         /\ IF r.raised # ""
            THEN /\ Finish(t, Raised(r.raised))
                 /\ UNCHANGED result
            ELSE /\ result' = [result EXCEPT ![t] = r.env]
                 /\ IF AssertRestResultRaises(r.env)
                    THEN Finish(t, Raised("InvalidShare:LogoutSessionError"))
                    ELSE LogoutReturns(t)
    /\ UNCHANGED <<url, session, lock, op, method, idx, deviceid, req,
                   nlogin>>
    /\ UNCHANGED opvars

\* 'if deviceid is not None: result = self.do_call(url, data, method)'
CallRetrySend(t) ==
    /\ pc[t] = "call_retry"
    /\ DoCallSend(t, "call", "call_retry_wait")
    /\ UNCHANGED <<url, session, lock, op, method, idx, deviceid, result,
                   nlogin>>
    /\ UNCHANGED opvars

\* call() looping: a sentinel code on the retry sends it to login() again
CallRetryRecvAgain(t) ==
    /\ pc[t] = "call_retry_wait"
    /\ \E resp \in Answers(req[t]) :
         LET r == DoCallResult(resp) IN
         /\ log' = [log EXCEPT ![t] = Answered(@, resp)]
         /\ IF r.raised # ""
            THEN /\ Finish(t, Raised(r.raised))
                 /\ UNCHANGED <<result, idx, nlogin>>
            ELSE /\ result' = [result EXCEPT ![t] = r.env]
                 /\ IF NeedsRelogin(r.env.code) /\ nlogin[t] < 2
                    THEN /\ pc' = [pc EXCEPT ![t] = "login_iter"]
                         /\ idx' = [idx EXCEPT ![t] = 1]
                         /\ nlogin' = [nlogin EXCEPT ![t] = @ + 1]
                         /\ UNCHANGED outcome
                    ELSE /\ Finish(t, Returned(r.env, 0))
                         /\ UNCHANGED <<idx, nlogin>>
    /\ UNCHANGED <<url, session, lock, op, method, deviceid, req>>
    /\ UNCHANGED opvars

\* 'return result', whatever the retry came back with
CallRetryRecv(t) ==
    /\ pc[t] = "call_retry_wait"
    /\ \E resp \in Answers(req[t]) :
         LET r == DoCallResult(resp) IN
         /\ log' = [log EXCEPT ![t] = Answered(@, resp)]
         /\ IF r.raised # ""
            THEN /\ Finish(t, Raised(r.raised))
                 /\ UNCHANGED result
            ELSE /\ result' = [result EXCEPT ![t] = r.env]
                 /\ Finish(t, Returned(r.env, 0))
    /\ UNCHANGED <<url, session, lock, op, method, idx, deviceid, req,
                   nlogin>>
    /\ UNCHANGED opvars

\* a wrapper that releases the lock on a normal return only
ReturnLeakingOnRaise(t) ==
    /\ pc[t] = "done"
    /\ pc' = [pc EXCEPT ![t] = "idle"]
    /\ op' = [op EXCEPT ![t] = "none"]
    /\ lock' = IF lock = t /\ outcome[t].kind = "return" THEN 0 ELSE lock
    /\ method' = [method EXCEPT ![t] = "None"]
    /\ idx' = [idx EXCEPT ![t] = 0]
    /\ deviceid' = [deviceid EXCEPT ![t] = 0]
    /\ result' = [result EXCEPT ![t] = NoEnvelope]
    /\ req' = [req EXCEPT ![t] = NoRequest]
    /\ log' = [log EXCEPT ![t] = <<>>]
    /\ nlogin' = [nlogin EXCEPT ![t] = 0]
    /\ outcome' = [outcome EXCEPT ![t] = NoOutcome]
    /\ UNCHANGED <<url, session>>
    /\ UNCHANGED opvars

\* The operation's frame is left: the synchronized wrapper releases the
\* lock on return and on exception alike.
Return(t) ==
    /\ pc[t] = "done"
    /\ pc' = [pc EXCEPT ![t] = "idle"]
    /\ op' = [op EXCEPT ![t] = "none"]
    /\ lock' = IF lock = t THEN 0 ELSE lock
    /\ method' = [method EXCEPT ![t] = "None"]
    /\ idx' = [idx EXCEPT ![t] = 0]
    /\ deviceid' = [deviceid EXCEPT ![t] = 0]
    /\ result' = [result EXCEPT ![t] = NoEnvelope]
    /\ req' = [req EXCEPT ![t] = NoRequest]
    /\ log' = [log EXCEPT ![t] = <<>>]
    /\ nlogin' = [nlogin EXCEPT ![t] = 0]
    /\ outcome' = [outcome EXCEPT ![t] = NoOutcome]
    /\ UNCHANGED <<url, session>>
    /\ UNCHANGED opvars

Next ==
    \E t \in Threads :
        \/ StartLogin(t)
        \/ StartLogout(t)
        \/ StartCall(t)
        \/ CallAcquire(t)
        \/ CallFirstSend(t)
        \/ CallFirstRecv(t)
        \/ LoginSend(t)
        \/ LoginRecv(t)
        \/ LoginExhausted(t)
        \/ LogoutSend(t)
        \/ LogoutRecv(t)
        \/ CallRetrySend(t)
        \/ CallRetryRecv(t)
        \/ Return(t)

Spec == Init /\ [][Next]_vars

\* The steps a thread takes by itself once it is inside an operation: its
\* code runs on, and every exchange ends (the requests carry a timeout).
Progress(t) ==
    \/ CallFirstSend(t)
    \/ CallFirstRecv(t)
    \/ LoginSend(t)
    \/ LoginRecv(t)
    \/ LoginExhausted(t)
    \/ LogoutSend(t)
    \/ LogoutRecv(t)
    \/ CallRetrySend(t)
    \/ CallRetryRecv(t)
    \/ Return(t)

\* Threads that run on, and a 'huawei_manila' lock that does not pass a
\* waiting caller over forever.
FairSpec ==
    /\ Spec
    /\ \A t \in Threads : WF_vars(Progress(t)) /\ SF_vars(CallAcquire(t))

\* ------------------------------------------------- resource operations
\* A resource operation builds a request, hands it to call() and judges
\* the envelope call() returns.  call() is the session layer above; to the
\* operation it is one step that returns an envelope or raises, and an
\* exception of call() leaves the operation as it is.
CallFailed == RRaise("call", 0)

\* an InvalidShare whose message leaves the result out
RestErrorBlank(ans) == RRaise("InvalidShare", 0)

\* _assert_rest_result's InvalidShare: the message is formatted with the
\* whole result, so it carries the envelope's code and description
RestError(ans) == RRaise("InvalidShare", ans.code)

\* _assert_data_in_result raises when "data" is not in the result
AssertDataInResultRaises(ans) == ~ans.hasData

\* its InvalidShare: '... "data" was not in result.'
DataError == RRaise("InvalidShare:data was not in result", 0)

\* result['data'][key] on an envelope whose "data" was not asserted
Subscript(ans, v) ==
    IF ans.hasData THEN RReturn(v) ELSE RRaise("KeyError", 0)

\* the envelopes of a request that is not a listing
SimpleAnswers == { Bare(c) : c \in ArrayCodes } \cup { WithData }

\* The operation o hands the request w to call() and ends as Judge says;
\* Judge[ans] is what the code after self.call() does with the envelope.
\* args are the arguments the operation was called with.
OneCallWith(o, w, Judge, args) ==
    /\ rop' = o
    /\ rpc' = "done"
    /\ \E ans \in SimpleAnswers \cup {CallRaises} :
         /\ rlog' = << [Sent(w, "", "", 0) EXCEPT !.ans = ans] >>
         /\ rout' = IF ans.kind = "raise" THEN CallFailed ELSE Judge[ans]
    /\ rarg' = args
    /\ UNCHANGED rloc
    /\ UNCHANGED sessvars

OneCall(o, w, Judge) == OneCallWith(o, w, Judge, rarg)

\* ------------------------------------------------- the share protocol
\* share_proto as the callers pass it; "FTP" stands for every value that is
\* neither 'NFS' nor 'CIFS'
Protocols == {"NFS", "CIFS", "FTP"}

\* a _get_share_client_type that falls back to the NFS client type
GetShareClientTypeLenient(share_proto) ==
    IF share_proto = "CIFS" THEN "CIFS_SHARE_AUTH_CLIENT"
    ELSE "NFS_SHARE_AUTH_CLIENT"

\* _get_share_client_type; "InvalidInput" is its raise
GetShareClientType(share_proto) ==
    IF share_proto = "NFS" THEN "NFS_SHARE_AUTH_CLIENT"
    ELSE IF share_proto = "CIFS" THEN "CIFS_SHARE_AUTH_CLIENT"
    ELSE "InvalidInput"

\* _get_share_url_type; "InvalidInput" is its raise
GetShareUrlType(share_proto) ==
    IF share_proto = "NFS" THEN "NFSHARE"
    ELSE IF share_proto = "CIFS" THEN "CIFSHARE"
    ELSE "InvalidInput"

\* exception.InvalidInput(reason='Invalid NAS protocol supplied: ...')
InvalidProtocol == RRaise("InvalidInput", 0)

\* the operation o raises on share_proto before it builds a request
RefuseProtocol(o, share_proto) ==
    /\ rop' = o
    /\ rpc' = "done"
    /\ rout' = InvalidProtocol
    /\ rarg' = [rarg EXCEPT !.share_proto = share_proto]
    /\ UNCHANGED <<rlog, rloc>>
    /\ UNCHANGED sessvars

\* 'if share_proto == NFS: ... elif share_proto == CIFS: ... else: raise':
\* the operation o hands over to the function callee[share_proto], or raises
DispatchOnProtocol(o, callee) ==
    \E share_proto \in Protocols :
        IF share_proto \in DOMAIN callee
        THEN /\ rop' = o
             /\ rpc' = callee[share_proto]
             /\ rarg' = [rarg EXCEPT !.share_proto = share_proto]
             /\ UNCHANGED <<rlog, rloc, rout>>
             /\ UNCHANGED sessvars
        ELSE RefuseProtocol(o, share_proto)

\* _delete_fs: the DELETE and _assert_rest_result
DeleteFsOutcome(ans) ==
    IF AssertRestResultRaises(ans) THEN RestError(ans) ELSE RReturn("None")

_delete_fs ==
    /\ rpc = "idle"
    /\ OneCall("_delete_fs", "DELETE /filesystem",
               [ans \in SimpleAnswers |-> DeleteFsOutcome(ans)])

\* _create_snapshot: both assertions, then result['data']['ID']
CreateSnapshotOutcome(ans) ==
    IF AssertRestResultRaises(ans) THEN RestError(ans)
    ELSE IF AssertDataInResultRaises(ans) THEN DataError
    ELSE Subscript(ans, "ID")

_create_snapshot ==
    /\ rpc = "idle"
    /\ OneCall("_create_snapshot", "POST /FSSNAPSHOT",
               [ans \in SimpleAnswers |-> CreateSnapshotOutcome(ans)])

\* create_qos_policy: _assert_rest_result, then result['data']['ID']
CreateQosPolicyOutcome(ans) ==
    IF AssertRestResultRaises(ans) THEN RestError(ans)
    ELSE Subscript(ans, "ID")

create_qos_policy ==
    /\ rpc = "idle"
    /\ OneCall("create_qos_policy", "POST /ioclass",
               [ans \in SimpleAnswers |-> CreateQosPolicyOutcome(ans)])

\* create_vlan: _assert_rest_result, then result['data']['ID']
CreateVlanOutcome(ans) ==
    IF AssertRestResultRaises(ans) THEN RestError(ans)
    ELSE Subscript(ans, "ID")

create_vlan ==
    /\ rpc = "idle"
    /\ OneCall("create_vlan", "POST /vlan",
               [ans \in SimpleAnswers |-> CreateVlanOutcome(ans)])

\* _get_share_count: _assert_rest_result, then int(result['data']['COUNT'])
GetShareCountOutcome(ans) ==
    IF AssertRestResultRaises(ans) THEN RestError(ans)
    ELSE Subscript(ans, "COUNT")

_get_share_count ==
    /\ rpc = "idle"
    /\ OneCall("_get_share_count", "GET /share/count",
               [ans \in SimpleAnswers |-> GetShareCountOutcome(ans)])

\* _get_snapshot_by_id: 'result = self.call(url, None, "GET")' and
\* 'return result'
GetSnapshotByIdOutcome(ans) == RReturnEnvelope(ans.code)

_get_snapshot_by_id ==
    /\ rpc = "idle"
    /\ OneCall("_get_snapshot_by_id", "GET /FSSNAPSHOT/id",
               [ans \in SimpleAnswers |-> GetSnapshotByIdOutcome(ans)])

\* _check_snapshot_id_exist judges the envelope it is given: False on the
\* not-found code, True on 0, InvalidShareSnapshot on every other code.
CheckSnapshotIdExistOutcome(snap_info) ==
    IF snap_info.code = MSG_SNAPSHOT_NOT_FOUND THEN RReturn("False")
    ELSE IF snap_info.code = 0 THEN RReturn("True")
    ELSE RRaise("InvalidShareSnapshot", snap_info.code)

_check_snapshot_id_exist ==
    /\ rpc = "idle"
    /\ rop' = "_check_snapshot_id_exist"
    /\ rpc' = "done"
    /\ \E snap_info \in SimpleAnswers :
         /\ rarg' = [rarg EXCEPT !.snap_info = snap_info]
         /\ rout' = CheckSnapshotIdExistOutcome(snap_info)
    /\ UNCHANGED <<rloc, rlog>>
    /\ UNCHANGED sessvars

\* a delete that lets the not-found code pass
DeleteSnapshotTolerant(ans) ==
    IF ans.code = MSG_SNAPSHOT_NOT_FOUND THEN RReturn("None")
    ELSE IF AssertRestResultRaises(ans) THEN RestError(ans)
    ELSE RReturn("None")

\* _delete_snapshot: the DELETE and _assert_rest_result
DeleteSnapshotOutcome(ans) ==
    IF AssertRestResultRaises(ans) THEN RestError(ans) ELSE RReturn("None")

_delete_snapshot ==
    /\ rpc = "idle"
    /\ OneCall("_delete_snapshot", "DELETE /FSSNAPSHOT/id",
               [ans \in SimpleAnswers |-> DeleteSnapshotOutcome(ans)])

\* a delete that asserts every code
DeleteReplicationPairStrict(ans) ==
    IF AssertRestResultRaises(ans) THEN RestError(ans) ELSE RReturn("None")

\* delete_replication_pair: a pair that does not exist is a warning
DeleteReplicationPairOutcome(ans) ==
    IF ans.code = ERROR_REPLICATION_PAIR_NOT_EXIST THEN RReturn("None")
    ELSE IF AssertRestResultRaises(ans) THEN RestError(ans)
    ELSE RReturn("None")

delete_replication_pair ==
    /\ rpc = "idle"
    /\ OneCall("delete_replication_pair", "DELETE /REPLICATIONPAIR/id",
               [ans \in SimpleAnswers |-> DeleteReplicationPairOutcome(ans)])

\* delete_hypermetro_pair: a pair that does not exist is a warning
DeleteHypermetroPairOutcome(ans) ==
    IF ans.code = ERROR_HYPERMETRO_NOT_EXIST THEN RReturn("None")
    ELSE IF AssertRestResultRaises(ans) THEN RestError(ans)
    ELSE RReturn("None")

delete_hypermetro_pair ==
    /\ rpc = "idle"
    /\ OneCall("delete_hypermetro_pair", "DELETE /HyperMetroPair/id",
               [ans \in SimpleAnswers |-> DeleteHypermetroPairOutcome(ans)])

\* a delete that asserts every code
DeleteVlanStrict(ans) ==
    IF AssertRestResultRaises(ans) THEN RestError(ans) ELSE RReturn("None")

\* delete_vlan: 'if result['error']['code'] == ERROR_LOGICAL_PORT_EXIST:'
\* warns and returns
DeleteVlanOutcome(ans) ==
    IF ans.code = ERROR_LOGICAL_PORT_EXIST THEN RReturn("None")
    ELSE IF AssertRestResultRaises(ans) THEN RestError(ans)
    ELSE RReturn("None")

delete_vlan ==
    /\ rpc = "idle"
    /\ OneCall("delete_vlan", "DELETE /vlan/id",
               [ans \in SimpleAnswers |-> DeleteVlanOutcome(ans)])

\* ------------------------------------------------------ CIFS grants
\* _allow_cifs_access_rest: 'domain_type = {'local': '2', 'ad': '0'}'
DomainType(k) == IF k = "local" THEN "2" ELSE "0"

\* every identity granted in the local domain type
GrantDomainAlwaysLocal(qualified) == DomainType("local")

\* 'if '\\' not in access_to:' grants in the local domain type, 'else:' in
\* the AD one; qualified says that access_to holds a backslash
GrantDomain(qualified) ==
    IF ~qualified THEN DomainType("local") ELSE DomainType("ad")

\* send_rest taking every non-zero code for a missing user or group
SendRestForgiving(ans) ==
    IF ans.code = 0 THEN "True" ELSE "False"

\* send_rest: True on code 0, False on the user-or-group-not-exist code;
\* every other code goes to _assert_rest_result
SendRest(ans) ==
    IF ans.code = 0 THEN "True"
    ELSE IF ans.code # ERROR_USER_OR_GROUP_NOT_EXIST
            /\ AssertRestResultRaises(ans)
    THEN "raise"
    ELSE "False"

\* the grant send_rest posts: NAME is access_to as given ("plain") or
\* '@' + access_to ("at")
Grant(nm, dt, ans) ==
    [Sent("POST /CIFS_SHARE_AUTH_CLIENT", nm, dt, 0) EXCEPT !.ans = ans]

\* _allow_cifs_access_rest up to the end of the first send_rest: the grant
\* of the user
AllowCifsUser ==
    /\ rpc \in {"idle", "_allow_cifs_access_rest"}
    /\ rop' = "_allow_cifs_access_rest"
    /\ \E qualified \in BOOLEAN, ans \in SimpleAnswers \cup {CallRaises} :
         /\ rarg' = [rarg EXCEPT !.qualified = qualified]
         /\ rlog' = << Grant("plain", GrantDomain(qualified), ans) >>
         /\ IF ans.kind = "raise"
            THEN rpc' = "done" /\ rout' = CallFailed
            ELSE IF SendRest(ans) = "True"
            THEN rpc' = "done" /\ rout' = RReturn("None")
            ELSE IF SendRest(ans) = "raise"
            THEN rpc' = "done" /\ rout' = RestError(ans)
            ELSE rpc' = "cifs_group" /\ rout' = rout
    /\ UNCHANGED rloc
    /\ UNCHANGED sessvars

\* the second send_rest, the grant of the group '@' + access_to, and the
\* 'raise exception.InvalidShare(reason=error_msg)' that ends the function
AllowCifsGroup ==
    /\ rpc = "cifs_group"
    /\ rpc' = "done"
    /\ \E ans \in SimpleAnswers \cup {CallRaises} :
         /\ rlog' = Append(rlog, Grant("at", GrantDomain(rarg.qualified), ans))
         /\ rout' = IF ans.kind = "raise" THEN CallFailed
                    ELSE IF SendRest(ans) = "True" THEN RReturn("None")
                    ELSE IF SendRest(ans) = "raise" THEN RestError(ans)
                    ELSE RRaise("InvalidShare", 0)
    /\ UNCHANGED <<rop, rarg, rloc>>
    /\ UNCHANGED sessvars

\* ------------------------------------------------- paginated lookups
\* the period of the segments: 'range_end = range_begin + 100',
\* 'range_begin += 100', 'count -= 100'
PageSize == 100

\* the values of data.COUNT: whole and half windows up to MaxWindows
CountValues == { k * (PageSize \div 2) : k \in 0..(2 * MaxWindows) }

\* the envelope of a count request that carries data.COUNT
CountAns(c) == Ans("return", 0, TRUE, c, 0, FALSE, FALSE)

\* the envelope of a range request: a list of nn items, one of which is
\* the item looked for when m
PageAns(nn, m) == Ans("return", 0, TRUE, 0, nn, m, FALSE)

CountAnswers ==
    { CallRaises, Bare(0), Bare(SomeArrayError) }
    \cup { CountAns(c) : c \in CountValues }

\* an empty, a short and a full window, with the item looked for or not
PageAnswers ==
    { CallRaises, Bare(0), Bare(SomeArrayError), PageAns(0, FALSE) }
    \cup { PageAns(nn, m) : nn \in {PageSize \div 2, PageSize},
                            m \in BOOLEAN }

\* _get_access_count: both assertions, then int(result['data']['COUNT'])
GetAccessCountOutcome(ans) ==
    IF AssertRestResultRaises(ans) THEN RestError(ans)
    ELSE IF AssertDataInResultRaises(ans) THEN DataError
    ELSE Subscript(ans, "COUNT")

\* The function o asks for the count with the request w; Judge is the
\* count function it calls.  'range_begin = 0' and the empty result follow.
AskCountWith(o, w, Judge, args) ==
    /\ rop' = o
    /\ \E ans \in CountAnswers :
         /\ rlog' = << [Sent(w, "", "", 0) EXCEPT !.ans = ans] >>
         /\ IF ans.kind = "raise"
            THEN rpc' = "done" /\ rout' = CallFailed /\ rloc' = rloc
            ELSE IF Judge[ans].kind = "raise"
            THEN rpc' = "done" /\ rout' = Judge[ans] /\ rloc' = rloc
            ELSE /\ rpc' = "scan"
                 /\ rout' = rout
                 /\ rloc' = [rloc EXCEPT !.count = ans.count,
                                         !.range_begin = 0,
                                         !.found = FALSE]
    /\ rarg' = args
    /\ UNCHANGED sessvars

AskCount(o, w, Judge) == AskCountWith(o, w, Judge, rarg)

_get_share_by_name ==
    /\ rpc = "idle"
    /\ AskCount("_get_share_by_name", "GET /share/count",
                [ans \in CountAnswers \ {CallRaises} |->
                    GetShareCountOutcome(ans)])

_get_access_from_share ==
    /\ rpc = "idle"
    /\ \E share_proto \in Protocols :
         IF GetShareClientType(share_proto) = "InvalidInput"
         THEN RefuseProtocol("_get_access_from_share", share_proto)
         ELSE AskCountWith("_get_access_from_share", "GET /client/count",
                           [ans \in CountAnswers \ {CallRaises} |->
                               GetAccessCountOutcome(ans)],
                           [rarg EXCEPT !.share_proto = share_proto])

_get_all_access_from_share ==
    /\ rpc = "idle"
    /\ \E share_proto \in Protocols :
         IF GetShareClientType(share_proto) = "InvalidInput"
         THEN RefuseProtocol("_get_all_access_from_share", share_proto)
         ELSE AskCountWith("_get_all_access_from_share", "GET /client/count",
                           [ans \in CountAnswers \ {CallRaises} |->
                               GetAccessCountOutcome(ans)],
                           [rarg EXCEPT !.share_proto = share_proto])

\* _get_share_by_name: 'while True: if count < 0 or share: break'
ShareScanGoesOn(count, share) == ~(count < 0 \/ share)

\* _get_access_from_share: 'while count > 0: if access_id: break'
AccessScanGoesOn(count, access_id) == count > 0 /\ ~access_id

\* _get_all_access_from_share: 'while count > 0:'
AllAccessScanGoesOn(count) == count > 0

ScanGoesOn ==
    CASE rop = "_get_share_by_name" ->
            ShareScanGoesOn(rloc.count, rloc.found)
      [] rop = "_get_access_from_share" ->
            AccessScanGoesOn(rloc.count, rloc.found)
      [] rop = "_get_all_access_from_share" ->
            AllAccessScanGoesOn(rloc.count)
      [] OTHER -> FALSE

\* the range request of the function that scans
RangeRequest ==
    IF rop = "_get_share_by_name" THEN "GET /share?range"
    ELSE "GET /client?range"

\* what the scan gives back: the share or {}, the access id or None, the
\* list of ids
ScanValue ==
    CASE rop = "_get_share_by_name" ->
            IF rloc.found THEN "share" ELSE "{}"
      [] rop = "_get_access_from_share" ->
            IF rloc.found THEN "access_id" ELSE "None"
      [] OTHER -> "access_ids"

\* a scan that gives up at the first window that is not full
ScanWindowStopsShort ==
    /\ rpc = "scan"
    /\ ScanGoesOn
    /\ \E ans \in PageAnswers :
         /\ rlog' = Append(rlog,
               [Sent(RangeRequest, "", "", rloc.range_begin)
                  EXCEPT !.ans = ans])
         /\ IF ans.kind = "raise"
            THEN rpc' = "done" /\ rout' = CallFailed /\ rloc' = rloc
            ELSE IF AssertRestResultRaises(ans)
            THEN rpc' = "done" /\ rout' = RestError(ans) /\ rloc' = rloc
            ELSE /\ rpc' = "scan"
                 /\ rout' = rout
                 /\ rloc' = [rloc EXCEPT
                      !.found = @ \/ (ans.hasData /\ ans.match),
                      !.range_begin = @ + PageSize,
                      !.count = IF ans.n < PageSize THEN -1
                                ELSE @ - PageSize]
    /\ UNCHANGED <<rop, rarg>>
    /\ UNCHANGED sessvars

\* One turn of the loop: the range request at range_begin
\* (_get_share_by_name_range, _get_access_from_share_range), the items of
\* "result.get('data', [])" looked through, then 'range_begin += 100' and
\* 'count -= 100'.
ScanWindow ==
    /\ rpc = "scan"
    /\ ScanGoesOn
    /\ \E ans \in PageAnswers :
         /\ rlog' = Append(rlog,
               [Sent(RangeRequest, "", "", rloc.range_begin)
                  EXCEPT !.ans = ans])
         /\ IF ans.kind = "raise"
            THEN rpc' = "done" /\ rout' = CallFailed /\ rloc' = rloc
            ELSE IF AssertRestResultRaises(ans)
            THEN rpc' = "done" /\ rout' = RestError(ans) /\ rloc' = rloc
            ELSE /\ rpc' = "scan"
                 /\ rout' = rout
                 /\ rloc' = [rloc EXCEPT
                      !.found = @ \/ (ans.hasData /\ ans.match),
                      !.range_begin = @ + PageSize,
                      !.count = @ - PageSize]
    /\ UNCHANGED <<rop, rarg>>
    /\ UNCHANGED sessvars

\* The loop is left: 'return share', 'return access_id',
\* 'return access_ids'.
ScanReturn ==
    /\ rpc = "scan"
    /\ ~ScanGoesOn
    /\ rpc' = "done"
    /\ rout' = RReturn(ScanValue)
    /\ UNCHANGED <<rop, rarg, rloc, rlog>>
    /\ UNCHANGED sessvars

\* ------------------------------------------------------ logical ports
\* the envelope of GET /LIF with its list: m says that an item has the
\* HOMEPORTID, IPV4ADDR and IPV4MASK asked for, u that the first such
\* item's OPERATIONALSTATUS is 'true'
LifAns(nn, m, u) == Ans("return", 0, TRUE, 0, nn, m, u)

LifAnswers ==
    { CallRaises, Bare(0), Bare(SomeArrayError), LifAns(0, FALSE, FALSE),
      LifAns(1, FALSE, FALSE), LifAns(1, TRUE, TRUE), LifAns(1, TRUE, FALSE) }

\* a port that is never activated
NeverActivated(item) == FALSE

\* 'if item['OPERATIONALSTATUS'] != 'true':'
NeedsActivation(item) == ~item.up

\* get_logical_port up to its return or to the call of
\* _activate_logical_port
get_logical_port ==
    /\ rpc = "idle"
    /\ rop' = "get_logical_port"
    /\ \E ans \in LifAnswers :
         /\ rlog' = << [Sent("GET /LIF", "", "", 0) EXCEPT !.ans = ans] >>
         /\ IF ans.kind = "raise"
            THEN rpc' = "done" /\ rout' = CallFailed
            ELSE IF AssertRestResultRaises(ans)
            THEN rpc' = "done" /\ rout' = RestError(ans)
            ELSE IF ~ans.hasData \/ ~ans.match
            THEN rpc' = "done" /\ rout' = RReturn("False, None")
            ELSE IF NeedsActivation(ans)
            THEN rpc' = "activate" /\ rout' = rout
            ELSE rpc' = "done" /\ rout' = RReturn("True, ID")
    /\ UNCHANGED <<rarg, rloc>>
    /\ UNCHANGED sessvars

\* _activate_logical_port: the PUT of {"OPERATIONALSTATUS": "true"} and
\* _assert_rest_result; then get_logical_port's 'return True, item['ID']'
_activate_logical_port ==
    /\ rpc = "activate"
    /\ rpc' = "done"
    /\ \E ans \in SimpleAnswers \cup {CallRaises} :
         /\ rlog' = Append(rlog,
               [Sent("PUT /LIF/id", "", "", 0) EXCEPT !.ans = ans])
         /\ rout' = IF ans.kind = "raise" THEN CallFailed
                    ELSE IF AssertRestResultRaises(ans) THEN RestError(ans)
                    ELSE RReturn("True, ID")
    /\ UNCHANGED <<rop, rarg, rloc>>
    /\ UNCHANGED sessvars

\* ------------------------------------------------------------- QoS
\* A string is the sequence of its characters.  s[1:-1]
Slice1(s) == IF Len(s) <= 2 THEN <<>> ELSE SubSeq(s, 2, Len(s) - 1)

\* the positions of the separator in s
SepPositions(s, sep) == { i \in 1..Len(s) : s[i] = sep }

\* s.split(sep): the pieces between the separators, '' included
RECURSIVE Split(_, _)
Split(s, sep) ==
    IF SepPositions(s, sep) = {} THEN << s >>
    ELSE LET i == CHOOSE k \in SepPositions(s, sep) :
                     \A j \in SepPositions(s, sep) : k <= j
         IN  << SubSeq(s, 1, i - 1) >>
             \o Split(SubSeq(s, i + 1, Len(s)), sep)

\* the ids of filesystems: strings of one and of two characters
FsIds == { <<"1">>, <<"2">>, <<"1", "2">> }

\* the lists of ids a policy can hold
FsLists == UNION { [1..n -> FsIds] : n \in 0..MaxFsList }

RECURSIVE Quoted(_)
\* "id","id",...
Quoted(l) ==
    IF Len(l) = 0 THEN <<>>
    ELSE IF Len(l) = 1 THEN <<"\"">> \o l[1] \o <<"\"">>
    ELSE <<"\"">> \o l[1] \o <<"\"", ",">> \o Quoted(Tail(l))

\* FSLIST and LUNLIST as the array writes them: '["id","id"]', and '[""]'
\* for the empty list
FsListString(l) ==
    IF Len(l) = 0 THEN <<"[", "\"", "\"", "]">>
    ELSE <<"[">> \o Quoted(l) \o <<"]">>

\* a filter that lets the target through
KeepsEveryId(tmp_fs_id, fs_id) == tmp_fs_id # <<>>

\* 'if '' != tmp_fs_id and tmp_fs_id != fs_id:'
KeepsId(tmp_fs_id, fs_id) == tmp_fs_id # <<>> /\ tmp_fs_id # fs_id

\* 'tmp_fs_id = fs_string[1:-1]' for every piece, in order
RECURSIVE KeptIds(_, _)
KeptIds(pieces, fs_id) ==
    IF Len(pieces) = 0 THEN <<>>
    ELSE LET tmp_fs_id == Slice1(pieces[1])
         IN  (IF KeepsId(tmp_fs_id, fs_id) THEN << tmp_fs_id >> ELSE <<>>)
             \o KeptIds(Tail(pieces), fs_id)

\* add_share_to_qos: new_fs_list
NewFsList(fs_list, fs_id) ==
    Append(KeptIds(Split(Slice1(fs_list), ","), fs_id), fs_id)

\* add_share_to_qos: the PUT of the new list and _assert_rest_result
add_share_to_qos ==
    /\ rpc = "idle"
    /\ rop' = "add_share_to_qos"
    /\ rpc' = "done"
    /\ \E l \in FsLists, fs_id \in FsIds,
          ans \in SimpleAnswers \cup {CallRaises} :
         /\ rarg' = [rarg EXCEPT !.fs_list = FsListString(l),
                                 !.policy_fs = l,
                                 !.fs_id = fs_id]
         /\ rlog' = << [Sent("PUT /ioclass/id", "", "", 0) EXCEPT
                          !.fslist = NewFsList(FsListString(l), fs_id),
                          !.ans = ans] >>
         /\ rout' = IF ans.kind = "raise" THEN CallFailed
                    ELSE IF AssertRestResultRaises(ans) THEN RestError(ans)
                    ELSE RReturn("None")
    /\ UNCHANGED rloc
    /\ UNCHANGED sessvars

\* The qos asked for: every option is a value or absent ("None").
QosRequests == [OPTS_QOS_VALUE -> {"None", "1"}]

\* the options a policy of the array can carry
PolicyOptions ==
    { [MAXIOPS |-> "1", LATENCY |-> "0"], [MAXIOPS |-> "1", LATENCY |-> "1"],
      [MAXIOPS |-> "None", LATENCY |-> "0"],
      [MAXIOPS |-> "1", LATENCY |-> "None"] }

\* n filesystems
SomeFs(n) == [i \in 1..n |-> <<"1">>]

\* One policy of GET /ioclass: its options, RUNNINGSTATUS, FSLIST, NAME and
\* LUNLIST; nfs is the number of filesystems FSLIST encodes.
Policy(o, st, n, nm, luns) ==
    [opts |-> o, RUNNINGSTATUS |-> st, nfs |-> n,
     FSLIST |-> FsListString(SomeFs(n)), NAME |-> nm,
     LUNLIST |-> FsListString(luns)]

\* a policy this client made and can reuse, with n filesystems
OwnPolicy(o, n) ==
    Policy(o, STATUS_QOS_ACTIVE, n, QOS_NAME_PREFIX \o <<"1">>, <<>>)

\* policies with none and with 63 filesystems, a full one, an inactive one,
\* one of another name, one with a LUN
Policies ==
    UNION { { OwnPolicy(o, 0), OwnPolicy(o, MAX_FS_NUM_IN_QOS - 1),
              OwnPolicy(o, MAX_FS_NUM_IN_QOS),
              Policy(o, "1", 1, QOS_NAME_PREFIX \o <<"1">>, <<>>),
              Policy(o, STATUS_QOS_ACTIVE, 1, <<"q", "o", "s">>, <<>>),
              Policy(o, STATUS_QOS_ACTIVE, 1, QOS_NAME_PREFIX \o <<"1">>,
                     << <<"1">> >>) } : o \in PolicyOptions }

\* the envelope of GET /ioclass with its list
QosAns(l) == [WithData EXCEPT !.items = l]

QosAnswers ==
    { CallRaises, Bare(0), Bare(SomeArrayError) }
    \cup { QosAns(l) : l \in UNION { [1..n -> Policies] :
                                       n \in 0..MaxPolicies } }

\* 'if 'LATENCY' not in temp_qos: temp_qos['LATENCY'] = '0''
TempQos(qos) ==
    IF qos["LATENCY"] = "None" THEN [qos EXCEPT !["LATENCY"] = "0"] ELSE qos

\* 'for key in constants.OPTS_QOS_VALUE:' runs to its end: no key on which
\* temp_qos.get() and item.get() differ
OptionsMatch(temp_qos, item) ==
    \A key \in OPTS_QOS_VALUE : temp_qos[key] = item.opts[key]

\* s.startswith(prefix)
StartsWith(str, prefix) ==
    Len(str) >= Len(prefix) /\ SubSeq(str, 1, Len(prefix)) = prefix

\* a policy taken whatever its running status
AvailableWhateverStatus(item) ==
    /\ Len(Split(item.FSLIST, ",")) < MAX_FS_NUM_IN_QOS
    /\ StartsWith(item.NAME, QOS_NAME_PREFIX)
    /\ item.LUNLIST = <<"[", "\"", "\"", "]">>

\* the condition under which qos_id is set
Available(item) ==
    /\ item.RUNNINGSTATUS = STATUS_QOS_ACTIVE
    /\ Len(Split(item.FSLIST, ",")) < MAX_FS_NUM_IN_QOS
    /\ StartsWith(item.NAME, QOS_NAME_PREFIX)
    /\ item.LUNLIST = <<"[", "\"", "\"", "]">>

\* the positions at which 'for item in result['data']:' would break
Breaks(temp_qos, items) ==
    { i \in 1..Len(items) :
        OptionsMatch(temp_qos, items[i]) /\ Available(items[i]) }

\* find_available_qos: get_qos (the GET and _assert_rest_result), then the
\* loop over the policies up to its first break
FindAvailableQosOutcome(qos, ans) ==
    IF AssertRestResultRaises(ans) THEN RestError(ans)
    ELSE IF ~ans.hasData \/ Breaks(TempQos(qos), ans.items) = {}
    THEN RReturn("None, []")
    ELSE RReturnQos(CHOOSE i \in Breaks(TempQos(qos), ans.items) :
                       \A j \in Breaks(TempQos(qos), ans.items) : i <= j)

find_available_qos ==
    /\ rpc = "idle"
    /\ rop' = "find_available_qos"
    /\ rpc' = "done"
    /\ \E qos \in QosRequests, ans \in QosAnswers :
         /\ rarg' = [rarg EXCEPT !.qos = qos]
         /\ rlog' = << [Sent("GET /ioclass", "", "", 0) EXCEPT !.ans = ans] >>
         /\ rout' = IF ans.kind = "raise" THEN CallFailed
                    ELSE FindAvailableQosOutcome(qos, ans)
    /\ UNCHANGED rloc
    /\ UNCHANGED sessvars

\* The caller has the operation's result; the client is idle again.
\* ------------------------------------------------- shares and access rules
\* create_share after self.call(): both assertions, then result['data']['ID']
CreateShareOutcome(ans) ==
    IF AssertRestResultRaises(ans) THEN RestError(ans)
    ELSE IF AssertDataInResultRaises(ans) THEN DataError
    ELSE RReturn("ID")

\* create_share: _get_share_url_type comes first, so the 'else: raise
\* InvalidShare' of the filepath is never reached
create_share ==
    /\ rpc = "idle"
    /\ \E share_proto \in Protocols :
         IF GetShareUrlType(share_proto) = "InvalidInput"
         THEN RefuseProtocol("create_share", share_proto)
         ELSE IF share_proto \notin {"NFS", "CIFS"}
         THEN /\ rop' = "create_share"
              /\ rpc' = "done"
              /\ rout' = RRaise("InvalidShare", 0)
              /\ rarg' = [rarg EXCEPT !.share_proto = share_proto]
              /\ UNCHANGED <<rlog, rloc>>
              /\ UNCHANGED sessvars
         ELSE OneCallWith("create_share", "POST /share",
                          [ans \in SimpleAnswers |-> CreateShareOutcome(ans)],
                          [rarg EXCEPT !.share_proto = share_proto])

_allow_access_rest ==
    /\ rpc = "idle"
    /\ DispatchOnProtocol("_allow_access_rest",
                          [NFS |-> "_allow_nfs_access_rest",
                           CIFS |-> "_allow_cifs_access_rest"])

_change_access_rest ==
    /\ rpc = "idle"
    /\ DispatchOnProtocol("_change_access_rest",
                          [NFS |-> "_change_nfs_access_rest",
                           CIFS |-> "_change_cifs_access_rest"])

\* the functions that send one request and assert its result
AssertOnlyOutcome(ans) ==
    IF AssertRestResultRaises(ans) THEN RestError(ans) ELSE RReturn("None")

_allow_nfs_access_rest ==
    /\ rpc \in {"idle", "_allow_nfs_access_rest"}
    /\ OneCall("_allow_nfs_access_rest", "POST /NFS_SHARE_AUTH_CLIENT",
               [ans \in SimpleAnswers |-> AssertOnlyOutcome(ans)])

_change_nfs_access_rest ==
    /\ rpc \in {"idle", "_change_nfs_access_rest"}
    /\ OneCall("_change_nfs_access_rest", "PUT /NFS_SHARE_AUTH_CLIENT/id",
               [ans \in SimpleAnswers |-> AssertOnlyOutcome(ans)])

_change_cifs_access_rest ==
    /\ rpc \in {"idle", "_change_cifs_access_rest"}
    /\ OneCall("_change_cifs_access_rest", "PUT /CIFS_SHARE_AUTH_CLIENT/id",
               [ans \in SimpleAnswers |-> AssertOnlyOutcome(ans)])

\* _remove_access_from_share: the DELETE goes to '/' + access_type + '/' + id
_remove_access_from_share ==
    /\ rpc = "idle"
    /\ \E share_proto \in Protocols :
         IF GetShareClientType(share_proto) = "InvalidInput"
         THEN RefuseProtocol("_remove_access_from_share", share_proto)
         ELSE OneCallWith("_remove_access_from_share", "DELETE /client/id",
                          [ans \in SimpleAnswers |-> AssertOnlyOutcome(ans)],
                          [rarg EXCEPT !.share_proto = share_proto])

\* _get_level_by_access_id after self.call(): result.get('data', []) is a
\* list when the envelope has no data, and a list has no get()
GetLevelOutcome(ans) ==
    IF AssertRestResultRaises(ans) THEN RestError(ans)
    ELSE IF ~ans.hasData THEN RRaise("AttributeError", 0)
    ELSE RReturn("access_level")

_get_level_by_access_id ==
    /\ rpc = "idle"
    /\ \E share_proto \in Protocols :
         IF GetShareClientType(share_proto) = "InvalidInput"
         THEN RefuseProtocol("_get_level_by_access_id", share_proto)
         ELSE OneCallWith("_get_level_by_access_id", "GET /client/id",
                          [ans \in SimpleAnswers |-> GetLevelOutcome(ans)],
                          [rarg EXCEPT !.share_proto = share_proto])

OpReturn ==
    /\ rpc = "done"
    /\ rop' = "none"
    /\ rpc' = "idle"
    /\ rarg' = NoArgs
    /\ rloc' = NoLocals
    /\ rlog' = <<>>
    /\ rout' = NoROutcome
    /\ UNCHANGED sessvars

NextOps ==
    \/ _delete_fs
    \/ _create_snapshot
    \/ create_qos_policy
    \/ create_vlan
    \/ _get_share_count
    \/ _get_snapshot_by_id
    \/ _check_snapshot_id_exist
    \/ _delete_snapshot
    \/ delete_replication_pair
    \/ delete_hypermetro_pair
    \/ delete_vlan
    \/ AllowCifsUser
    \/ AllowCifsGroup
    \/ _get_share_by_name
    \/ _get_access_from_share
    \/ _get_all_access_from_share
    \/ ScanWindow
    \/ ScanReturn
    \/ get_logical_port
    \/ _activate_logical_port
    \/ add_share_to_qos
    \/ find_available_qos
    \/ create_share
    \/ _allow_access_rest
    \/ _change_access_rest
    \/ _allow_nfs_access_rest
    \/ _change_nfs_access_rest
    \/ _change_cifs_access_rest
    \/ _remove_access_from_share
    \/ _get_level_by_access_id
    \/ OpReturn

SpecOps == Init /\ [][NextOps]_vars

\* ------------------------------------------------------- reading the log
IsLogin(e) == e.kind = "login"
IsCall(e) == e.kind = "call"
IsLogout(e) == e.kind = "logout"

LoginEntries(t) == SelectSeq(log[t], IsLogin)
CallEntries(t) == SelectSeq(log[t], IsCall)
LogoutEntries(t) == SelectSeq(log[t], IsLogout)

IsAnswered(e) == e.resp.kind # "pending"

\* The envelope a caller of do_call sees for a response, by the transport
\* contract: the connect sentinel for a transport failure, the status for
\* an HTTP error, the body otherwise.
IsTransportFailure(resp) == resp.kind = "exc"
IsHttpError(resp) ==
    resp.kind = "http" /\ resp.status >= 400 /\ resp.status <= 599
IsBody(resp) == resp.kind = "http" /\ resp.status = 200 /\ resp.json

SeenCode(resp) ==
    IF IsTransportFailure(resp) THEN ERROR_CONNECT_TO_SERVER
    ELSE IF IsHttpError(resp) THEN resp.status
    ELSE resp.env.code

IsSentinel(resp) ==
    /\ IsTransportFailure(resp) \/ IsHttpError(resp) \/ IsBody(resp)
    /\ SeenCode(resp) \in {ERROR_CONNECT_TO_SERVER,
                           ERROR_UNAUTHORIZED_TO_SERVER}

\* A login answer that login() is to accept: code 0, a data payload and a
\* device id that is not null.
GoodLogin(resp) ==
    /\ IsBody(resp)
    /\ resp.env.code = 0
    /\ resp.env.hasData
    /\ resp.env.deviceid # 0

\* A login answer that is to be rejected: a non-zero code, a missing data
\* payload or a null device id.
BadLogin(resp) ==
    \/ IsTransportFailure(resp)
    \/ IsHttpError(resp)
    \/ IsBody(resp) /\ (resp.env.code # 0 \/ ~resp.env.hasData
                        \/ resp.env.deviceid = 0)

ExpiredLogin(resp) ==
    GoodLogin(resp) /\ resp.env.accountstate \in PWD_EXPIRED_OR_INITIAL

\* the last candidate contacted gave an acceptable answer for an account
\* that need not change its password: login() succeeds
LoginSucceeded(t) ==
    LET L == LoginEntries(t) IN
    /\ Len(L) >= 1
    /\ GoodLogin(L[Len(L)].resp)
    /\ ~ExpiredLogin(L[Len(L)].resp)

\* login() has returned a device id to its caller
LoginReturned(t) ==
    \/ op[t] = "call" /\ pc[t] \in {"call_retry", "call_retry_wait"}
    \/ op[t] = "call" /\ pc[t] = "done" /\ Len(CallEntries(t)) = 2
    \/ op[t] = "login" /\ pc[t] = "done" /\ outcome[t].kind = "return"

\* ------------------------------------------------------------------ C1
\* C1: in call(), a sentinel code on the first exchange makes call() enter
\* login() exactly once; the request is re-sent at most once, and exactly
\* once when login() has returned; whatever the re-sent request comes back
\* with, a sentinel code included, is what call() returns, with no second
\* login and no third exchange.
C1_OneReloginOneRetry ==
    \A t \in Threads :
        (op[t] = "call" /\ Len(log[t]) >= 1 /\ IsAnswered(log[t][1])
         /\ IsSentinel(log[t][1].resp))
        => /\ nlogin[t] = 1
           /\ Len(CallEntries(t)) <= 2
           /\ LoginSucceeded(t) /\ pc[t] = "done"
                => /\ Len(CallEntries(t)) = 2
                   /\ IsCall(log[t][Len(log[t])])
           /\ pc[t] = "done" /\ outcome[t].kind = "return"
                => /\ Len(CallEntries(t)) = 2
                   /\ IsCall(log[t][Len(log[t])])
                   /\ outcome[t].env.code = SeenCode(log[t][Len(log[t])].resp)

\* a call whose first exchange and whose retry both came back unauthorized
C1_Witness ==
    \E t \in Threads :
        /\ op[t] = "call" /\ pc[t] = "done" /\ outcome[t].kind = "return"
        /\ Len(CallEntries(t)) = 2
        /\ nlogin[t] = 1
        /\ SeenCode(log[t][1].resp) = ERROR_UNAUTHORIZED_TO_SERVER
        /\ outcome[t].env.code = ERROR_UNAUTHORIZED_TO_SERVER

\* ------------------------------------------------------------------ C2
\* a caller between the sending of its first exchange and its retry
MidCall(t) ==
    /\ op[t] = "call"
    /\ pc[t] \in {"call_first_wait", "login_iter", "login_wait", "logout",
                  "logout_wait", "call_retry"}

\* a caller with a request on the wire
InFlight(t) ==
    /\ op[t] = "call"
    /\ pc[t] \in {"call_first_wait", "login_wait", "logout_wait",
                  "call_retry_wait"}

\* C2: with several threads in call() on the same client, no two login
\* requests are ever in flight together, and no caller has an exchange in
\* flight while another caller is between its first exchange and its retry.
C2_CallsSerialized ==
    \A t, u \in Threads :
        t # u =>
            /\ ~(pc[t] = "login_wait" /\ pc[u] = "login_wait")
            /\ ~(MidCall(t) /\ InFlight(u))

\* a re-login in flight in one caller while another caller waits at the lock
C2_Witness ==
    \E t, u \in Threads :
        /\ t # u
        /\ op[t] = "call" /\ pc[t] = "login_wait"
        /\ op[u] = "call" /\ pc[u] = "call_lock"

\* ------------------------------------------------------------------ C3
\* C3: login() contacts url_list in order (the j-th login request goes to
\* the j-th URL), every answer before the last one contacted was one to
\* reject, so nothing is contacted after an acceptable answer; and when
\* login() returns, the last answer is acceptable and self.url is that
\* candidate's URL followed by the device id of that answer.
C3_LoginOrderAndBaseUrl ==
    \A t \in Threads :
        LET L == LoginEntries(t) IN
        /\ \A j \in 1..Len(L) : L[j].item = j
        /\ \A j \in 1..(Len(L) - 1) :
               IsAnswered(L[j]) /\ ~GoodLogin(L[j].resp)
        /\ LoginReturned(t)
             => /\ Len(L) >= 1
                /\ GoodLogin(L[Len(L)].resp)
                /\ deviceid[t] = L[Len(L)].resp.env.deviceid
                /\ url = UrlOf(Len(L), L[Len(L)].resp.env.deviceid)

\* three URLs: the first fails to connect, the second is accepted, the third
\* is never contacted
C3_Witness ==
    \E t \in Threads :
        LET L == LoginEntries(t) IN
        /\ op[t] = "login" /\ pc[t] = "done" /\ outcome[t].kind = "return"
        /\ NumUrls >= 3
        /\ Len(L) = 2
        /\ IsTransportFailure(L[1].resp)
        /\ GoodLogin(L[2].resp)
        /\ url = UrlOf(2, L[2].resp.env.deviceid)
        /\ outcome[t].dev = L[2].resp.env.deviceid

\* ------------------------------------------------------------------ C4
\* login() has raised: the operation ended with an exception after login()
\* was entered and before it returned a device id
LoginFailed(t) ==
    /\ pc[t] = "done"
    /\ outcome[t].kind = "raise"
    /\ nlogin[t] >= 1
    /\ ~LoginSucceeded(t)

\* C4: whenever login() fails, because every candidate was rejected or
\* because the accepted account must change its password, the client holds
\* no base URL and no iBaseToken afterwards.
C4_NoSessionAfterFailedLogin ==
    \A t \in Threads :
        (LoginFailed(t)
         /\ outcome[t].exc \in {"InvalidShare:AllUrlLoginFail",
                                "ShareBackendException:PasswordExpired"})
        => ~UrlTruthy(url) /\ session.iBaseToken = 0

\* ------------------------------------------------------------------ C5
\* C5: once a candidate's acceptable answer carries a password-expired or
\* initial account state, the very next request of login() is the DELETE of
\* the session, no candidate is contacted after it, login() never returns a
\* device id, and it ends by raising.
C5_ExpiredLogsOutAndRaises ==
    \A t \in Threads :
        \A j \in 1..Len(log[t]) :
            (IsLogin(log[t][j]) /\ ExpiredLogin(log[t][j].resp))
            => /\ Len(log[t]) <= j + 1
               /\ Len(log[t]) = j + 1 => IsLogout(log[t][j + 1])
               /\ pc[t] \in {"logout", "logout_wait", "done"}
               /\ pc[t] \in {"logout_wait", "done"} => Len(log[t]) = j + 1
               /\ pc[t] = "done"
                    => /\ outcome[t].kind = "raise"
                       /\ outcome[t].dev = 0
                       /\ IsAnswered(log[t][j + 1])

\* a direct login() whose accepted account is expired, the DELETE answered
\* with code 0 and the password error raised
C5_Witness ==
    \E t \in Threads :
        /\ op[t] = "login" /\ pc[t] = "done"
        /\ Len(log[t]) = 2
        /\ ExpiredLogin(log[t][1].resp)
        /\ IsLogout(log[t][2]) /\ IsBody(log[t][2].resp)
        /\ log[t][2].resp.env.code = 0
        /\ outcome[t] = Raised("ShareBackendException:PasswordExpired")

\* ------------------------------------------------------------------ C6
\* every login answer of the operation so far was one to reject
AllLoginsBad(t) ==
    LET L == LoginEntries(t) IN
    /\ Len(L) >= 1
    /\ \A j \in 1..Len(L) : IsAnswered(L[j]) /\ BadLogin(L[j].resp)

\* C6: when login() has ended and every answer it got was one to reject
\* (non-zero code, no data payload, or null device id), it has raised the
\* 'All url login fail' error, after one request to each candidate, in
\* url_list order.
C6_AllRejectedRaisesExhausted ==
    \A t \in Threads :
        (pc[t] = "done" /\ AllLoginsBad(t))
        => /\ outcome[t] = Raised("InvalidShare:AllUrlLoginFail")
           /\ Len(LoginEntries(t)) = NumUrls
           /\ \A j \in 1..NumUrls : LoginEntries(t)[j].item = j

\* a direct login() rejected by every candidate, for the three reasons
C6_Witness ==
    \E t \in Threads :
        LET L == LoginEntries(t) IN
        /\ op[t] = "login" /\ pc[t] = "done" /\ AllLoginsBad(t)
        /\ Len(L) = NumUrls
        /\ \E j \in 1..Len(L) : SeenCode(L[j].resp) # 0
        /\ \E j \in 1..Len(L) : IsBody(L[j].resp) /\ ~L[j].resp.env.hasData
        /\ \E j \in 1..Len(L) :
              /\ IsBody(L[j].resp) /\ L[j].resp.env.code = 0
              /\ L[j].resp.env.hasData /\ L[j].resp.env.deviceid = 0
        /\ outcome[t] = Raised("InvalidShare:AllUrlLoginFail")

\* ------------------------------------------------------------------ C7
\* the re-login inside call() failed: every candidate rejected, or an
\* expired account accepted
ReloginExhausted(t) ==
    op[t] = "call" /\ pc[t] = "done" /\ AllLoginsBad(t)

ReloginExpired(t) ==
    /\ op[t] = "call" /\ pc[t] = "done"
    /\ Len(LoginEntries(t)) >= 1
    /\ ExpiredLogin(LoginEntries(t)[Len(LoginEntries(t))].resp)

\* C7: when the re-login inside call() fails, call() ends by raising the
\* error login() raised ('All url login fail', or the password error once
\* the DELETE of the expired session succeeded); it returns no envelope and
\* sends no retry.
C7_FailedReloginRaises ==
    \A t \in Threads :
        /\ ReloginExhausted(t)
             => /\ outcome[t] = Raised("InvalidShare:AllUrlLoginFail")
                /\ Len(CallEntries(t)) = 1
        /\ ReloginExpired(t)
             => /\ outcome[t].kind = "raise"
                /\ Len(CallEntries(t)) = 1
                /\ (IsBody(log[t][Len(log[t])].resp)
                    /\ log[t][Len(log[t])].resp.env.code = 0)
                     => outcome[t].exc
                          = "ShareBackendException:PasswordExpired"

\* a call() whose re-login was rejected by every candidate
C7_Witness ==
    \E t \in Threads :
        /\ ReloginExhausted(t)
        /\ IsSentinel(log[t][1].resp)
        /\ outcome[t].kind = "raise"
        /\ Len(log[t]) = 1 + NumUrls

\* ------------------------------------------------------------------ C8
\* the exceptions that do_call's own exchange can give rise to
TransportExceptions == {"ConnectionError", "HTTPError", "ValueError"}

\* C8: do_call does not raise for a transport failure or an HTTP error
\* status: its caller gets an envelope with the connect sentinel, or with
\* the HTTP status, as code, and that code is not 0.
C8_DoCallNeverRaisesForTransport ==
    \A t \in Threads :
        (Len(log[t]) >= 1 /\ IsAnswered(log[t][Len(log[t])]))
        => LET resp == log[t][Len(log[t])].resp IN
           /\ IsTransportFailure(resp)
                => /\ result[t].code = ERROR_CONNECT_TO_SERVER
                   /\ result[t].code # 0
                   /\ outcome[t].exc \notin TransportExceptions
           /\ IsHttpError(resp)
                => /\ result[t].code = resp.status
                   /\ result[t].code # 0
                   /\ ~result[t].hasData
                   /\ outcome[t].exc \notin TransportExceptions

\* a call() whose first exchange failed in the transport (the connect
\* sentinel sent it to login()) and whose retry met an HTTP error, returned
\* as an envelope
C8_Witness ==
    \E t \in Threads :
        /\ op[t] = "call" /\ pc[t] = "done"
        /\ Len(CallEntries(t)) = 2
        /\ IsTransportFailure(log[t][1].resp)
        /\ nlogin[t] = 1
        /\ IsHttpError(log[t][Len(log[t])].resp)
        /\ outcome[t]
             = Returned(ErrorEnvelope(log[t][Len(log[t])].resp.status), 0)

\* ------------------------------------------------------------------ C9
\* logout() ran on an established session and its DELETE came back with a
\* code that is not 0
LogoutRefused(t) ==
    /\ op[t] = "logout" /\ pc[t] = "done"
    /\ Len(log[t]) = 1
    /\ IsTransportFailure(log[t][1].resp) \/ IsHttpError(log[t][1].resp)
         \/ IsBody(log[t][1].resp)
    /\ SeenCode(log[t][1].resp) # 0

\* C9 as stated: logout() returns normally when the DELETE of an established
\* session comes back with a non-zero code.
C9_LogoutToleratesDeadSession ==
    \A t \in Threads : LogoutRefused(t) => outcome[t].kind = "return"

\* C9 amended: when the DELETE comes back with a non-zero code logout()
\* raises the 'Logout session error.' InvalidShare; it returns normally only
\* when the DELETE came back with code 0 or when no base URL was set, in
\* which case it sent nothing.
C9_LogoutRaisesOnRefusal ==
    \A t \in Threads :
        /\ LogoutRefused(t)
             => outcome[t] = Raised("InvalidShare:LogoutSessionError")
        /\ (op[t] = "logout" /\ pc[t] = "done" /\ outcome[t].kind = "return")
             => \/ Len(log[t]) = 0
                \/ /\ Len(log[t]) = 1
                   /\ IsBody(log[t][1].resp)
                   /\ log[t][1].resp.env.code = 0

\* a logout() whose DELETE came back unauthorized, the session being dead
C9_Witness ==
    \E t \in Threads :
        /\ LogoutRefused(t)
        /\ SeenCode(log[t][1].resp) = ERROR_UNAUTHORIZED_TO_SERVER
        /\ req[t].prefix.st = "url"
        /\ outcome[t] = Raised("InvalidShare:LogoutSessionError")

\* ----------------------------------------------------------------- C10
\* C10: after logout() has completed on an established session (its DELETE
\* sent and answered with code 0), the client holds no base URL and no
\* iBaseToken, so that another logout() would send nothing.
C10_LogoutDestroysSession ==
    \A t \in Threads :
        (op[t] = "logout" /\ pc[t] = "done" /\ outcome[t].kind = "return"
         /\ Len(log[t]) = 1)
        => ~UrlTruthy(url) /\ session.iBaseToken = 0

\* ------------------------------------------- reading a resource operation
\* what call() did with the operation's last request
LastAns == rlog[Len(rlog)].ans

\* The codes an operation lets pass, as its description states them.
Tolerance(o) ==
    CASE o = "delete_replication_pair" -> {ERROR_REPLICATION_PAIR_NOT_EXIST}
      [] o = "delete_hypermetro_pair" -> {ERROR_HYPERMETRO_NOT_EXIST}
      [] o = "delete_vlan" -> {ERROR_LOGICAL_PORT_EXIST}
      [] o = "_allow_cifs_access_rest" -> {ERROR_USER_OR_GROUP_NOT_EXIST}
      [] o \in {"_delete_snapshot", "_get_snapshot_by_id"} ->
            {MSG_SNAPSHOT_NOT_FOUND}
      [] OTHER -> {}

\* call() returned, to the operation's last request, an envelope whose code
\* is neither 0 nor one the operation lets pass
FailedEnvelope ==
    /\ rlog # <<>>
    /\ LastAns.kind = "return"
    /\ LastAns.code \notin ({0} \cup Tolerance(rop))

\* the operation raised a domain error that carries the envelope's code
RaisedWithCode ==
    /\ rpc = "done"
    /\ rout.kind = "raise"
    /\ rout.exc = "InvalidShare"
    /\ rout.code = LastAns.code

ExtractingOperations ==
    { "_create_snapshot", "create_qos_policy", "create_vlan",
      "_get_share_count" }

\* C12: an operation that extracts a value from the data payload raises the
\* '"data" was not in result' domain error when call() returns a code-0
\* envelope without a data field; it fails in no other way.
C12_MissingDataRaisesDataError ==
    ( /\ rop \in ExtractingOperations
      /\ rpc = "done"
      /\ LastAns = Bare(0) )
    => rout = DataError

\* the grants of the running _allow_cifs_access_rest, in the order sent
IsCifsGrant == rop = "_allow_cifs_access_rest"

NotExist(e) ==
    e.ans.kind = "return" /\ e.ans.code = ERROR_USER_OR_GROUP_NOT_EXIST

Granted(e) == e.ans.kind = "return" /\ e.ans.code = 0

OtherFailure(e) ==
    e.ans.kind = "return"
    /\ e.ans.code \notin {0, ERROR_USER_OR_GROUP_NOT_EXIST}

\* C13: for a CIFS identity without a backslash the first grant carries the
\* plain name; a second grant, with the '@'-prefixed name, is sent only when
\* the first returned the user-or-group-not-exist code; the operation
\* succeeds as soon as a grant returns code 0, and any other non-zero code
\* raises at once, with no further request.
C13_PlainThenGroupFallback ==
    (IsCifsGrant /\ ~rarg.qualified) =>
        /\ Len(rlog) \in {1, 2}
        /\ rlog[1].name = "plain"
        /\ Len(rlog) = 2 => (NotExist(rlog[1]) /\ rlog[2].name = "at")
        /\ (rpc = "cifs_group") <=> (Len(rlog) = 1 /\ NotExist(rlog[1]))
        /\ \A i \in 1..Len(rlog) :
             /\ Granted(rlog[i]) =>
                  (i = Len(rlog) /\ rpc = "done" /\ rout = RReturn("None"))
             /\ OtherFailure(rlog[i]) =>
                  ( /\ i = Len(rlog)
                    /\ rpc = "done"
                    /\ rout = RRaise("InvalidShare", rlog[i].ans.code) )

\* the plain name is refused as unknown and the group grant is accepted
C13_Witness ==
    /\ IsCifsGrant
    /\ ~rarg.qualified
    /\ rpc = "done"
    /\ Len(rlog) = 2
    /\ NotExist(rlog[1])
    /\ rlog[2].name = "at"
    /\ Granted(rlog[2])
    /\ rout = RReturn("None")

IsLocalGrant(e) == e.domain = DomainType("local")
IsADGrant(e) == e.domain = DomainType("ad")

\* every grant sent so far was refused with user-or-group-not-exist
AllGrantsNotExist == \A i \in 1..Len(rlog) : NotExist(rlog[i])

IsLookup ==
    rlog # <<>> /\ rop \in {"_get_share_by_name", "_get_access_from_share"}
IsScan ==
    IsLookup \/ (rlog # <<>> /\ rop = "_get_all_access_from_share")

\* rlog[1] is the count request and rlog[2..] are the windows
IsCountRequest(e) == e.what \in {"GET /share/count", "GET /client/count"}
IsRangeRequest(e) == e.what \in {"GET /share?range", "GET /client?range"}
NumWindows == Len(rlog) - 1

\* the count the array reported (0 while none was read)
Count0 == rlog[1].ans.count
CountKnown == rlog[1].ans.kind = "return" /\ rlog[1].ans.hasData

\* the window holds the item looked for
HasMatch(e) == e.ans.kind = "return" /\ e.ans.hasData /\ e.ans.match

\* the window came back with a full page
FullPage(e) ==
    e.ans.kind = "return" /\ e.ans.hasData /\ e.ans.n = PageSize

Ceil100(c) == (c + PageSize - 1) \div PageSize

\* C15: a paginated lookup asks for the count first, then requests windows
\* at 0, 100, 200, ... in increasing order, requests no window after the
\* first one that holds a match, and never requests more than
\* ceil(count / 100) windows.
C15_WindowsInOrderWithinBudget ==
    IsLookup =>
        /\ IsCountRequest(rlog[1])
        /\ \A i \in 2..Len(rlog) :
             /\ IsRangeRequest(rlog[i])
             /\ rlog[i].begin = (i - 2) * PageSize
        /\ \A i \in 2..(Len(rlog) - 1) : ~HasMatch(rlog[i])
        /\ NumWindows <= Ceil100(Count0)

\* C16: the count is not trusted as exact: a window that comes back short
\* or empty ends the scan, so every window that is followed by another one
\* was full.
C16_ShortWindowEndsScan ==
    IsScan => \A i \in 2..(Len(rlog) - 1) : FullPage(rlog[i])

\* the windows the budget of a count pays for when nothing is found
Budget ==
    IF rop = "_get_share_by_name" THEN Count0 \div PageSize + 1
    ELSE Ceil100(Count0)

\* no window ended the scan with a match
NoMatchSeen ==
    \/ rop = "_get_all_access_from_share"
    \/ \A i \in 2..Len(rlog) : ~HasMatch(rlog[i])

\* C16 as the code has it: the size of a page never ends the scan.  Each
\* window takes 100 off the budget whatever it holds, and a scan that
\* returns without a match has requested every window of the budget.
C16_ScanRunsThroughBudget ==
    (IsScan /\ CountKnown) =>
        /\ rpc = "scan" => rloc.count = Count0 - PageSize * NumWindows
        /\ (rpc = "done" /\ rout.kind = "return" /\ NoMatchSeen) =>
             NumWindows = Budget

\* a count of 250: a short window, an empty one, and the match in the third
C16_Witness ==
    /\ rop = "_get_access_from_share"
    /\ rpc = "done"
    /\ Len(rlog) = 4
    /\ Count0 = 250
    /\ rlog[2].ans = PageAns(PageSize \div 2, FALSE)
    /\ rlog[3].ans = PageAns(0, FALSE)
    /\ HasMatch(rlog[4])
    /\ rout = RReturn("access_id")

\* ------------------------------------------------- reading a delete
\* the operation ended on an envelope call() returned
EndedOn(o) == rop = o /\ rpc = "done" /\ LastAns.kind = "return"

\* what a delete that tolerates the code c does with the envelope
ToleratesOnly(c) ==
    IF LastAns.code \in {0, c}
    THEN rout = RReturn("None")
    ELSE rout = RRaise("InvalidShare", LastAns.code)

\* C17: delete_replication_pair and delete_hypermetro_pair return normally
\* when the array answers with their pair-does-not-exist code (so a second
\* delete of the same pair succeeds too), and raise on every other
\* non-zero code.
C17_PairDeletesIdempotent ==
    /\ EndedOn("delete_replication_pair") =>
         ToleratesOnly(ERROR_REPLICATION_PAIR_NOT_EXIST)
    /\ EndedOn("delete_hypermetro_pair") =>
         ToleratesOnly(ERROR_HYPERMETRO_NOT_EXIST)

\* the pair is already gone and the delete returns
C17_Witness ==
    /\ EndedOn("delete_replication_pair")
    /\ LastAns = Bare(ERROR_REPLICATION_PAIR_NOT_EXIST)
    /\ rout = RReturn("None")

\* C18: deleting a snapshot that the array reports as not found
\* (snapshot-not-found code) returns successfully, with no error.
C18_SnapshotDeleteIdempotent ==
    ( /\ EndedOn("_delete_snapshot")
      /\ LastAns.code = MSG_SNAPSHOT_NOT_FOUND )
    => rout = RReturn("None")

\* C18 as the code has it: _delete_snapshot raises on the not-found code as
\* on every other non-zero code; the code is let pass only by
\* _check_snapshot_id_exist, which answers False to it, True to 0 and
\* raises on every other code.
C18_NotFoundToleratedByCheckOnly ==
    /\ EndedOn("_delete_snapshot") =>
         IF LastAns.code = 0
         THEN rout = RReturn("None")
         ELSE rout = RRaise("InvalidShare", LastAns.code)
    /\ (rop = "_check_snapshot_id_exist" /\ rpc = "done") =>
         /\ rlog = <<>>
         /\ rout = IF rarg.snap_info.code = MSG_SNAPSHOT_NOT_FOUND
                   THEN RReturn("False")
                   ELSE IF rarg.snap_info.code = 0
                   THEN RReturn("True")
                   ELSE RRaise("InvalidShareSnapshot", rarg.snap_info.code)

\* the DELETE of a snapshot is answered with snapshot-not-found and raises
C18_Witness ==
    /\ EndedOn("_delete_snapshot")
    /\ LastAns = Bare(MSG_SNAPSHOT_NOT_FOUND)
    /\ rout = RRaise("InvalidShare", MSG_SNAPSHOT_NOT_FOUND)

\* C19: delete_vlan returns normally, without raising, when the array
\* answers with the logical-port-exists code, and raises on every other
\* non-zero code.
C19_VlanDeleteToleratesLogicalPort ==
    EndedOn("delete_vlan") => ToleratesOnly(ERROR_LOGICAL_PORT_EXIST)

\* a logical port still sits on the vlan and the delete returns
C19_Witness ==
    /\ EndedOn("delete_vlan")
    /\ LastAns = Bare(ERROR_LOGICAL_PORT_EXIST)
    /\ rout = RReturn("None")

\* ------------------------------------------------- reading get_logical_port
IsActivation(e) == e.what = "PUT /LIF/id"

\* the listing holds the interface asked for
PortListed ==
    /\ rop = "get_logical_port"
    /\ rlog[1].ans.kind = "return"
    /\ rlog[1].ans.code = 0
    /\ rlog[1].ans.hasData
    /\ rlog[1].ans.match

\* C20: when get_logical_port finds the matching interface and it is not
\* operational, the activation request is sent before (True, id) is
\* returned; when the interface is operational no activation is sent; and
\* when the activation fails, the error is raised instead of the found
\* result.
C20_ActivatesBeforeReturning ==
    (PortListed /\ rpc = "done") =>
        IF rlog[1].ans.up
        THEN Len(rlog) = 1 /\ rout = RReturn("True, ID")
        ELSE /\ Len(rlog) = 2
             /\ IsActivation(rlog[2])
             /\ rlog[2].ans.kind = "return" =>
                  rout = IF rlog[2].ans.code = 0
                         THEN RReturn("True, ID")
                         ELSE RRaise("InvalidShare", rlog[2].ans.code)

\* the interface is down, the activation is accepted, (True, id) is returned
C20_Witness ==
    /\ PortListed
    /\ ~rlog[1].ans.up
    /\ rpc = "done"
    /\ Len(rlog) = 2
    /\ IsActivation(rlog[2])
    /\ rlog[2].ans.kind = "return"
    /\ rlog[2].ans.code = 0
    /\ rout = RReturn("True, ID")

\* ------------------------------------------------- reading a QoS request
\* the ids of l other than x, in the order of l
Others(l, x) == SelectSeq(l, LAMBDA y : y # x)

\* C21: add_share_to_qos sends a filesystem list that holds the target id
\* exactly once, as its last element, after every other id of the policy's
\* original list in the original order; adding the same filesystem to the
\* list the first add produced gives the same list again.
C21_TargetOnceAndLast ==
    (rop = "add_share_to_qos" /\ rpc = "done") =>
        LET sent == rlog[1].fslist IN
        /\ sent = Append(Others(rarg.policy_fs, rarg.fs_id), rarg.fs_id)
        /\ NewFsList(FsListString(sent), rarg.fs_id) = sent

\* the target is already the first of the policy's two filesystems: it is
\* sent once, after the other
C21_Witness ==
    /\ rop = "add_share_to_qos"
    /\ rpc = "done"
    /\ rarg.policy_fs = << <<"1">>, <<"1", "2">> >>
    /\ rarg.fs_id = <<"1">>
    /\ rlog[1].fslist = << <<"1", "2">>, <<"1">> >>
    /\ rlog[1].ans.kind = "return"
    /\ rout = RReturn("None")

\* the policy has, for every option the caller asked for, the value asked
MatchesRequested(qos, item) ==
    \A key \in OPTS_QOS_VALUE :
        qos[key] # "None" => item.opts[key] = qos[key]

\* the policy agrees with the request on every option: an option that was
\* not asked for is absent from the policy, and latency, when not asked
\* for, is '0'
AgreesOnEveryOption(qos, item) ==
    \A key \in OPTS_QOS_VALUE :
        item.opts[key] =
            IF key = "LATENCY" /\ qos[key] = "None" THEN "0" ELSE qos[key]

\* active, fewer than 64 filesystems, the client's prefix, no LUN
Reusable(item) ==
    /\ item.RUNNINGSTATUS = STATUS_QOS_ACTIVE
    /\ item.nfs < MAX_FS_NUM_IN_QOS
    /\ StartsWith(item.NAME, QOS_NAME_PREFIX)
    /\ item.LUNLIST = FsListString(<<>>)

\* find_available_qos returned on a listing
QosListed ==
    /\ rop = "find_available_qos"
    /\ rpc = "done"
    /\ rlog[1].ans.kind = "return"
    /\ rlog[1].ans.code = 0

\* what is returned is the first position of S, or (None, []) when S is
\* empty
ReturnsFirstOf(S) ==
    IF S = {} THEN rout = RReturn("None, []")
    ELSE rout.kind = "return" /\ rout.id \in S /\ \A j \in S : rout.id <= j

\* C22: find_available_qos returns the first policy, in the array's order,
\* that matches every requested option value, is active, has fewer than 64
\* filesystems, has a name with the client's prefix and has no LUN; it
\* returns (None, []) when no policy qualifies.
C22_FirstQualifyingPolicy ==
    QosListed =>
        ReturnsFirstOf({ i \in 1..Len(rlog[1].ans.items) :
            /\ MatchesRequested(rarg.qos, rlog[1].ans.items[i])
            /\ Reusable(rlog[1].ans.items[i]) })

\* C22 as the code has it: the policy returned is the first reusable one
\* that agrees with the request on every QoS option, those not asked for
\* included.
C22_FirstPolicyAgreeingOnEveryOption ==
    QosListed =>
        ReturnsFirstOf({ i \in 1..Len(rlog[1].ans.items) :
            /\ AgreesOnEveryOption(rarg.qos, rlog[1].ans.items[i])
            /\ Reusable(rlog[1].ans.items[i]) })

\* only MAXIOPS is asked for: a policy with that MAXIOPS and a latency of
\* its own is passed over, the policy with 63 filesystems after it is taken
C22_Witness ==
    /\ QosListed
    /\ rarg.qos = [MAXIOPS |-> "1", LATENCY |-> "None"]
    /\ rlog[1].ans.items =
         << OwnPolicy([MAXIOPS |-> "1", LATENCY |-> "1"], 0),
            OwnPolicy([MAXIOPS |-> "1", LATENCY |-> "0"],
                      MAX_FS_NUM_IN_QOS - 1) >>
    /\ rout = RReturnQos(2)

\* ------------------------------------------------- reading the protocol
\* the operations that take share_proto and decide on it themselves
ProtocolOperations ==
    { "create_share", "_allow_access_rest", "_change_access_rest",
      "_get_access_from_share", "_get_all_access_from_share",
      "_get_level_by_access_id", "_remove_access_from_share" }

UnsupportedProtocol == rarg.share_proto \notin {"", "NFS", "CIFS"}

\* C23: for a protocol other than NFS and CIFS, create_share,
\* _allow_access_rest, _change_access_rest and the access lookup and removal
\* operations raise the invalid-input error without handing any request to
\* call(), hence with no exchange, login or retry; for NFS and CIFS none of
\* them raises it.
C23_UnsupportedProtocolRaisesUnsent ==
    /\ (rop \in ProtocolOperations /\ UnsupportedProtocol) =>
         /\ rpc = "done"
         /\ rout = RRaise("InvalidInput", 0)
         /\ rlog = <<>>
    /\ ~UnsupportedProtocol => rout.exc # "InvalidInput"
    /\ rout.exc = "InvalidInput" => rop \in ProtocolOperations

\* an access lookup called with a third protocol
C23_Witness ==
    /\ rop = "_get_access_from_share"
    /\ rarg.share_proto = "FTP"
    /\ rpc = "done"
    /\ rout = RRaise("InvalidInput", 0)
    /\ rlog = <<>>

\* ------------------------------------------------- reading call()
\* the first exchange of t's call() came back as an envelope whose code is
\* neither of the two sentinels
FirstNotSentinel(t) ==
    /\ op[t] = "call"
    /\ Len(log[t]) >= 1
    /\ IsAnswered(log[t][1])
    /\ IsHttpError(log[t][1].resp) \/ IsBody(log[t][1].resp)
    /\ ~IsSentinel(log[t][1].resp)

\* the client's base URL and token are those the request r went out with
SessionAsSentWith(r) == url = r.prefix /\ session.iBaseToken = r.token

\* C24: when the first exchange of call() comes back with a code that is no
\* sentinel (0 or any other), call() returns that envelope after this one
\* exchange, enters no login, and the base URL with its device id and the
\* token are those the request was sent with.
C24_NonSentinelReturnsAtOnce ==
    \A t \in Threads :
        FirstNotSentinel(t) =>
            /\ pc[t] = "done"
            /\ outcome[t].kind = "return"
            /\ outcome[t].env.code = SeenCode(log[t][1].resp)
            /\ IsBody(log[t][1].resp) => outcome[t].env = log[t][1].resp.env
            /\ Len(log[t]) = 1
            /\ nlogin[t] = 0
            /\ SessionAsSentWith(req[t])

\* an array error on the first exchange of a call() on an established
\* session
C24_Witness ==
    \E t \in Threads :
        /\ FirstNotSentinel(t)
        /\ pc[t] = "done"
        /\ IsBody(log[t][1].resp)
        /\ log[t][1].resp.env.code = SomeArrayError
        /\ UrlTruthy(url)
        /\ session.iBaseToken # 0
        /\ outcome[t] = Returned(ErrorEnvelope(SomeArrayError), 0)

\* the retry of t's call() has been sent
RetrySent(t) == op[t] = "call" /\ Len(CallEntries(t)) = 2

\* the login exchange that t's operation made last
LastLogin(t) == LoginEntries(t)[Len(LoginEntries(t))]

\* C25: after a re-login inside call() succeeded, the retried exchange goes
\* to the base URL (candidate and device id) and with the token that this
\* re-login established, and these are what the client holds.
C25_RetryUsesNewSession ==
    \A t \in Threads :
        RetrySent(t) =>
            /\ LoginEntries(t) # <<>>
            /\ GoodLogin(LastLogin(t).resp)
            /\ req[t].kind = "call"
            /\ req[t].prefix =
                 UrlOf(LastLogin(t).item, LastLogin(t).resp.env.deviceid)
            /\ req[t].token = LastLogin(t).resp.env.iBaseToken
            /\ SessionAsSentWith(req[t])

\* the first candidate rejected the re-login, the second accepted it with
\* device id 2 and token 2, and the retry is on the wire
C25_Witness ==
    \E t \in Threads :
        /\ RetrySent(t)
        /\ pc[t] = "call_retry_wait"
        /\ Len(LoginEntries(t)) = 2
        /\ LastLogin(t).item = 2
        /\ req[t].prefix = UrlOf(2, 2)
        /\ req[t].token = 2

\* ------------------------------------------------- reading login()
\* the credentials of t's login() are on the wire
CredentialsInFlight(t) == pc[t] = "login_wait" /\ req[t].kind = "login"

\* C26: every login attempt resets the session state first: the credential
\* request for candidate i is the i-th of the login, goes to
\* <candidate i>xx/sessions with no base URL in front and with no
\* iBaseToken header, and while it is in flight the client has no base URL
\* and a session without a token.
C26_LoginRequestStartsClean ==
    \A t \in Threads :
        /\ pc[t] = "login_wait" => req[t].kind = "login"
        /\ CredentialsInFlight(t) =>
             /\ req[t].item = idx[t]
             /\ req[t].item = LastLogin(t).item
             /\ req[t].prefix = UrlNone
             /\ req[t].token = 0
             /\ req[t].method = "POST"
             /\ url = UrlNone
             /\ session = SessionFresh

\* a call() whose first exchange came back unauthorized has the credentials
\* for the second candidate on the wire
C26_Witness ==
    \E t \in Threads :
        /\ CredentialsInFlight(t)
        /\ op[t] = "call"
        /\ SeenCode(log[t][1].resp) = ERROR_UNAUTHORIZED_TO_SERVER
        /\ req[t].item = 2
        /\ req[t].prefix = UrlNone
        /\ req[t].token = 0

\* ------------------------------------------------- reading the lock
\* t is inside call(), past the acquisition of the lock
InsideCall(t) == op[t] = "call" /\ pc[t] \notin {"idle", "call_lock"}

StartedWithoutSession(t) ==
    /\ op[t] = "call"
    /\ Len(log[t]) >= 1
    /\ ~log[t][1].based
    /\ IsAnswered(log[t][1])

\* the exchange came back as an envelope
GaveEnvelope(e) ==
    IsTransportFailure(e.resp) \/ IsHttpError(e.resp) \/ IsBody(e.resp)

\* C28: a client whose login failed on every URL stays usable: the next
\* call() gets a sentinel envelope from its first exchange, enters login()
\* once more, and when a candidate accepts it sends the request again and
\* returns what this retry came back with.
C28_UsableAfterFailedLogin ==
    \A t \in Threads :
        StartedWithoutSession(t) =>
            /\ IsSentinel(log[t][1].resp)
            /\ nlogin[t] = 1
            /\ (pc[t] = "done" /\ LoginSucceeded(t)) =>
                 /\ Len(CallEntries(t)) = 2
                 /\ IsCall(log[t][Len(log[t])])
                 /\ log[t][Len(log[t])].based
                 /\ GaveEnvelope(log[t][Len(log[t])]) =>
                      /\ outcome[t].kind = "return"
                      /\ outcome[t].env.code
                           = SeenCode(log[t][Len(log[t])].resp)
                      /\ IsBody(log[t][Len(log[t])].resp) =>
                           outcome[t].env = log[t][Len(log[t])].resp.env

\* the first exchange went out with no base URL, the first candidate
\* rejected the login, the second accepted it, and the retry's code-0
\* envelope with data is what call() returned
C28_Witness ==
    \E t \in Threads :
        /\ StartedWithoutSession(t)
        /\ pc[t] = "done"
        /\ Len(LoginEntries(t)) = 2
        /\ LoginSucceeded(t)
        /\ Len(log[t]) = 4
        /\ outcome[t] = Returned(Envelope(0, TRUE, 0, 0, "NORMAL"), 0)
        /\ UrlTruthy(url)

\* ------------------------------------------------- reading a fresh client
\* the client as __init__ leaves it
FreshClient == url = UrlUnset /\ session = SessionNone

\* the errors the session layer raises by itself
DomainErrors ==
    { "InvalidShare:AllUrlLoginFail", "InvalidShare:LogoutSessionError",
      "ShareBackendException:PasswordExpired",
      "ShareBackendException:InvalidMethod" }

\* C29: a call() on a freshly constructed client, before any login() has
\* run, triggers a login attempt and ends with an envelope or a domain
\* error, never with an internal error of the uninitialised session state.
C29_FreshCallEndsDefined ==
    \A t \in Threads :
        (op[t] = "call" /\ pc[t] = "done" /\ FreshClient) =>
            /\ nlogin[t] >= 1
            /\ \/ outcome[t].kind = "return"
               \/ outcome[t].exc \in DomainErrors

\* ------------------------------------------------- reading the session
\* no thread is inside login()'s loop
NoLoginInProgress ==
    \A t \in Threads : pc[t] \notin {"login_iter", "login_wait"}

\* a step that drops the base URL and the session together
ResetTogether == url' = UrlNone /\ session' = SessionFresh

\* a step that stores the device id and the token of one accepted login
\* answer
SetTogether ==
    \E t \in Threads :
        /\ pc[t] = "login_wait"
        /\ LoginEntries(t)' # <<>>
        /\ GoodLogin(LastLogin(t)'.resp)
        /\ url' = UrlOf(LastLogin(t)'.item, LastLogin(t)'.resp.env.deviceid)
        /\ session'.iBaseToken = LastLogin(t)'.resp.env.iBaseToken

\* C30: while no login is in progress, the client has an established base
\* URL exactly when its session carries an iBaseToken; and the two only
\* ever change together, being dropped together or taken from one and the
\* same login answer.
C30_BaseUrlIffToken ==
    /\ [](NoLoginInProgress => (UrlTruthy(url) <=> session.iBaseToken # 0))
    /\ [][(url' # url \/ session' # session) =>
            (ResetTogether \/ SetTogether)]_vars

\* between operations, on the session the second candidate gave: device id
\* 1 and token 2
C30_Witness ==
    /\ \A t \in Threads : pc[t] = "idle"
    /\ url = UrlOf(2, 1)
    /\ session = [live |-> TRUE, iBaseToken |-> 2]


====
